---- MODULE Spec2Model ----
(***************************************************************************)
(* Model of the table catalog of iceberg-rest-server (postgres backend):   *)
(* the "table" relation with its warehouse / namespace joins and the       *)
(* operations of implementations/postgres/table.rs on it.                  *)
(*   Spec        the catalog life cycle from the empty relation            *)
(*   SpecCreate  create_table calls, with the call recorded                *)
(*   SpecCommit  commit_table_transaction calls, with the call recorded    *)
(*   SpecTx      two concurrent commit transactions under READ COMMITTED   *)
(*   SpecTxDrop  a commit transaction concurrent with drop_table           *)
(*   SpecRename  rename_table calls, with the call recorded                *)
(*   SpecLocation  get_table_metadata_by_s3_location calls                 *)
(*   SpecGate    one call of any operation, warehouses active or inactive  *)
(*   SpecRenameTx  two concurrent rename transactions and a reader         *)
(*   SpecCreateTx  two concurrent create transactions                      *)
(*   SpecBatch   the size checks of table_idents_to_ids and of             *)
(*               commit_table_transaction around their limits              *)
(*   SpecRetry   a successful mutating call and its immediate retry        *)
(*   SpecOrder   commits whose later change fails its requirements         *)
(* and of the warehouse operations of the management service and the       *)
(* pagination tokens of the REST server:                                   *)
(*   SpecWarehouse  create_warehouse step by step, the update operations   *)
(*   SpecPage    PageToken and NextPageToken construction and conversion   *)
(***************************************************************************)
EXTENDS Integers, Sequences, FiniteSets, TLC

VARIABLES table, warehouse_status, last, tx, warehouse, secrets, task

vars == <<table, warehouse_status, last, tx, warehouse, secrets, task>>

(***************************************************************************)
(* Value domains.  Option<T> is a sequence of length 0 (None) or 1 (Some). *)
(***************************************************************************)
None == <<>>

Some(x) == <<x>>

IsSome(o) == o # <<>>

Unwrap(o) == o[1]

\* UUIDs handed to create_table (uuid::Uuid::now_v7() at the caller; the tests
\* also pass an id that is already in use).
TableIds == {"id1", "id2"}

Warehouses == {"w1", "w2"}

\* The rows of the "namespace" relation (namespace.rs is the owner; the
\* table operations only join on it).
Namespace ==
  { [namespace_id |-> "n1", warehouse_id |-> "w1", namespace_name |-> <<"a">>],
    [namespace_id |-> "n2", warehouse_id |-> "w1", namespace_name |-> <<"b">>],
    [namespace_id |-> "n3", warehouse_id |-> "w2", namespace_name |-> <<"a">>] }

NamespaceIds == {n.namespace_id : n \in Namespace}

\* A namespace id that matches no row of "namespace".
UnknownNamespaceIds == {"n0"}

NamespaceNames == {<<"a">>, <<"b">>}

TableNames == {"t", "u"}

\* Table root locations, as sequences of characters.
Locations == {<<"x">>, <<"x", "y">>}

PropKeys == {"k1", "k2"}

\* Largest identifier minted for a metadata file (uuid::Uuid::now_v7()).
MaxMetadataId == 1

MetadataIds == 1..MaxMetadataId

\* warehouse.storage_profile of each warehouse row.
StorageProfileOf(w) == <<"profile", w>>

\* warehouse.storage_secret_id of each warehouse row: w1 has a credential.
StorageSecretOf(w) == IF w = "w1" THEN Some(<<"secret", w>>) ELSE None

TableIdent(namespace, name) == [namespace |-> namespace, name |-> name]

TableIdents == {TableIdent(ns, nm) : ns \in NamespaceNames, nm \in TableNames}

(***************************************************************************)
(* Results.  Ok, or an ErrorModel (code, type).                            *)
(***************************************************************************)
Ok == [ok |-> TRUE, code |-> 200, type |-> "Ok"]

Err(code, type) == [ok |-> FALSE, code |-> code, type |-> type]

\* The management service at rest: no warehouse row written through it, an
\* empty secret store, no request in progress.
TaskIdle ==
  [op |-> "idle", pc |-> "idle", request |-> <<>>,
   before |-> [warehouse |-> {}, secrets |-> {}], secret_id |-> None,
   pending |-> {}, steps |-> <<>>, result |-> Ok, value |-> None]

NoService == warehouse = {} /\ secrets = {} /\ task = TaskIdle

(***************************************************************************)
(* The relations.  A row of "table":                                       *)
(*   [table_id, namespace_id, table_name, metadata, metadata_location,     *)
(*    table_location]                                                      *)
(* with metadata = [uuid, location, properties] (the part of TableMetadata *)
(* the catalog reads or writes) and metadata_location an Option.           *)
(***************************************************************************)
TableMetadata(uuid, location, properties) ==
  [uuid |-> uuid, location |-> location, properties |-> properties]

\* INNER JOIN namespace n ... INNER JOIN warehouse w ... WHERE w.status = 'active'
ActiveNamespaces(status) ==
  {n \in Namespace : status[n.warehouse_id] = "active"}

NamespaceOf(row) ==
  CHOOSE n \in Namespace : n.namespace_id = row.namespace_id

WarehouseOf(row) == NamespaceOf(row).warehouse_id

IsStaged(row) == row.metadata_location = None

\* The rows a query gated on the active warehouse can see.
VisibleRows(tbl, status) ==
  {r \in tbl : \E n \in ActiveNamespaces(status) : n.namespace_id = r.namespace_id}

\* The rows of warehouse_id stored under the identifier (namespace, name).
RowsOfIdent(tbl, status, warehouse_id, ident) ==
  {r \in VisibleRows(tbl, status) :
      /\ WarehouseOf(r) = warehouse_id
      /\ NamespaceOf(r).namespace_name = ident.namespace
      /\ r.table_name = ident.name}

\* A variant that ignores include_staged.
table_ident_to_id_any(tbl, status, warehouse_id, ident, include_staged) ==
  LET rows == RowsOfIdent(tbl, status, warehouse_id, ident)
  IN IF rows = {} THEN None
     ELSE Some((CHOOSE x \in rows : TRUE).table_id)

(***************************************************************************)
(* table_ident_to_id: Ok(None) when no row is found or the row is staged   *)
(* and include_staged is false, else Ok(Some(table_id)).                   *)
(***************************************************************************)
table_ident_to_id(tbl, status, warehouse_id, ident, include_staged) ==
  LET rows == RowsOfIdent(tbl, status, warehouse_id, ident)
  IN IF rows = {} THEN None
     ELSE LET r == CHOOSE x \in rows : TRUE
          IN IF IsStaged(r) /\ ~include_staged THEN None ELSE Some(r.table_id)

\* A variant without the filter on metadata_location.
load_table_any(tbl, status, warehouse_id, ident) ==
  LET rows == RowsOfIdent(tbl, status, warehouse_id, ident)
  IN IF rows = {}
     THEN [result |-> Err(404, "NoSuchTableError"), value |-> None]
     ELSE LET r == CHOOSE x \in rows : TRUE
          IN [result |-> Ok,
              value |-> Some([table_id |-> r.table_id,
                              namespace_id |-> r.namespace_id,
                              table_metadata |-> r.metadata,
                              metadata_location |-> r.metadata_location,
                              storage_profile |-> StorageProfileOf(warehouse_id)])]

(***************************************************************************)
(* load_table: the committed row of the identifier in an active warehouse, *)
(* else NotFound/NoSuchTableError.                                         *)
(***************************************************************************)
load_table(tbl, status, warehouse_id, ident) ==
  LET rows == {r \in RowsOfIdent(tbl, status, warehouse_id, ident) :
                  r.metadata_location # None}
  IN IF rows = {}
     THEN [result |-> Err(404, "NoSuchTableError"), value |-> None]
     ELSE LET r == CHOOSE x \in rows : TRUE
          IN [result |-> Ok,
              value |-> Some([table_id |-> r.table_id,
                              namespace_id |-> r.namespace_id,
                              table_metadata |-> r.metadata,
                              metadata_location |-> r.metadata_location,
                              storage_profile |-> StorageProfileOf(warehouse_id)])]

(***************************************************************************)
(* s LIKE pattern.  Strings are sequences of characters; in the pattern    *)
(* "%" matches any run of characters and "_" any one character.            *)
(***************************************************************************)
RECURSIVE Like(_, _)
Like(s, pattern) ==
  IF pattern = <<>> THEN s = <<>>
  ELSE IF Head(pattern) = "%"
       THEN Like(s, Tail(pattern)) \/ (s # <<>> /\ Like(Tail(s), pattern))
       ELSE /\ s # <<>>
            /\ Head(pattern) = "_" \/ Head(pattern) = Head(s)
            /\ Like(Tail(s), Tail(pattern))

GetTableMetadataResult(r, warehouse_id) ==
  [table |-> TableIdent(NamespaceOf(r).namespace_name, r.table_name),
   table_id |-> r.table_id,
   warehouse_id |-> warehouse_id,
   location |-> r.table_location,
   metadata_location |-> r.metadata_location,
   storage_profile |-> StorageProfileOf(warehouse_id)]

\* .fetch_one() takes the first row the query returns, RowNotFound when there
\* is none; then the check of include_staged.  One outcome for each row that
\* can come first.
FetchOneMetadata(rows, warehouse_id, include_staged) ==
  IF rows = {}
  THEN {[result |-> Err(404, "NoSuchTableError"), value |-> None]}
  ELSE {IF ~include_staged /\ IsStaged(r)
        THEN [result |-> Err(404, "TableStaged"), value |-> None]
        ELSE [result |-> Ok, value |-> Some(GetTableMetadataResult(r, warehouse_id))] :
        r \in rows}

\* WHERE w.warehouse_id = $1 AND t."table_id" = $2 AND w.status = 'active'
get_table_metadata_by_id(tbl, status, warehouse_id, table_id, include_staged) ==
  FetchOneMetadata({r \in VisibleRows(tbl, status) :
                      WarehouseOf(r) = warehouse_id /\ r.table_id = table_id},
                   warehouse_id, include_staged)

\* WHERE w.warehouse_id = $1 AND $2 like t."table_location" || '%'
\*   AND LENGTH(t."table_location") <= $3 AND w.status = 'active'
LocationMatches(row, location) ==
  /\ Like(location, row.table_location \o <<"%">>)
  /\ Len(row.table_location) <= Len(location)

get_table_metadata_by_s3_location(tbl, status, warehouse_id, location, include_staged) ==
  FetchOneMetadata({r \in VisibleRows(tbl, status) :
                      WarehouseOf(r) = warehouse_id /\ LocationMatches(r, location)},
                   warehouse_id, include_staged)

\* list_tables: table_id -> identifier of the rows of a namespace, as pairs.
\* A variant of list_tables without the metadata_location condition.
list_tables_unfiltered(tbl, status, warehouse_id, namespace, include_staged) ==
  {<<r.table_id, TableIdent(NamespaceOf(r).namespace_name, r.table_name)>> :
     r \in {x \in VisibleRows(tbl, status) :
              /\ WarehouseOf(x) = warehouse_id
              /\ NamespaceOf(x).namespace_name = namespace}}

list_tables(tbl, status, warehouse_id, namespace, include_staged) ==
  {<<r.table_id, TableIdent(NamespaceOf(r).namespace_name, r.table_name)>> :
     r \in {x \in VisibleRows(tbl, status) :
              /\ WarehouseOf(x) = warehouse_id
              /\ NamespaceOf(x).namespace_name = namespace
              /\ (x.metadata_location # None \/ include_staged)}}

(***************************************************************************)
(* create_table.                                                           *)
(***************************************************************************)
\* TableMetadataAggregate::new(location, schema) ... assign_uuid(table_id) ... build()
NewTableMetadata(table_id, location, properties) ==
  TableMetadata(table_id, location, properties)

\* A variant of the gate without w.status = 'active'.
InsertGateAnyStatus(status, namespace_id) ==
  \E n \in Namespace : n.namespace_id = namespace_id

\* WHERE EXISTS (SELECT 1 FROM warehouse w INNER JOIN namespace n ...
\*               WHERE n.namespace_id = $2 AND w.status = 'active')
InsertGate(status, namespace_id) ==
  \E n \in ActiveNamespaces(status) : n.namespace_id = namespace_id

\* Variants of the ON CONFLICT clause: DO UPDATE without the WHERE, DO UPDATE
\* WHERE ... IS NOT NULL, and DO NOTHING.
OverwriteAlways(existing) == TRUE

OverwriteCommitted(existing) == existing.metadata_location # None

OverwriteNever(existing) == FALSE

\* ON CONFLICT ... DO UPDATE ... WHERE "table"."metadata_location" IS NULL
OverwriteAllowed(existing) == existing.metadata_location = None

\* The INSERT ... ON CONFLICT statement: the relation it leaves and its outcome
\* ("row" when RETURNING yields a row, "none" for RowNotFound, "db_error" when
\* the primary key on table_id is violated).
InsertTable(tbl, status, namespace_id, name, table_id, metadata, metadata_location, location) ==
  LET new == [table_id |-> table_id, namespace_id |-> namespace_id,
              table_name |-> name, metadata |-> metadata,
              metadata_location |-> metadata_location, table_location |-> location]
      conflict == {r \in tbl : r.namespace_id = namespace_id /\ r.table_name = name}
  IN IF ~InsertGate(status, namespace_id)
     THEN [table |-> tbl, outcome |-> "none"]
     ELSE IF conflict = {}
     THEN IF \E r \in tbl : r.table_id = table_id
          THEN [table |-> tbl, outcome |-> "db_error"]
          ELSE [table |-> tbl \cup {new}, outcome |-> "row"]
     ELSE LET c == CHOOSE x \in conflict : TRUE
          IN IF ~OverwriteAllowed(c)
             THEN [table |-> tbl, outcome |-> "none"]
             ELSE IF \E r \in tbl \ {c} : r.table_id = table_id
             THEN [table |-> tbl, outcome |-> "db_error"]
             ELSE [table |-> (tbl \ {c}) \cup {new}, outcome |-> "row"]

\* request = [location : Option, properties : Option]
create_table(tbl, status, namespace_id, ident, table_id, request, metadata_location) ==
  IF request.location = None
  THEN [table |-> tbl, result |-> Err(409, "CreateTableLocationRequired"),
        table_metadata |-> None]
  ELSE LET location == Unwrap(request.location)
           properties == IF request.properties = None THEN {}
                         ELSE Unwrap(request.properties)
           table_metadata == NewTableMetadata(table_id, location, properties)
           ins == InsertTable(tbl, status, namespace_id, ident.name, table_id,
                              table_metadata, metadata_location, location)
       IN CASE ins.outcome = "row" ->
                 [table |-> ins.table, result |-> Ok,
                  table_metadata |-> Some(table_metadata)]
            [] ins.outcome = "none" ->
                 [table |-> tbl, result |-> Err(409, "TableAlreadyExists"),
                  table_metadata |-> None]
            [] OTHER ->
                 [table |-> tbl, result |-> Err(500, "ErrorCreatingTable"),
                  table_metadata |-> None]

(***************************************************************************)
(* rename_table.  Each branch is one UPDATE; "db_error" is a violated      *)
(* constraint (unique_table_name_per_namespace, or namespace_id set to the *)
(* NULL of an empty sub-select).                                           *)
(***************************************************************************)
\* AND $3 IN (SELECT warehouse_id FROM warehouse WHERE status = 'active')
RenameGate(status, warehouse_id) == status[warehouse_id] = "active"

\* WHERE table_id = $2      (same namespace)
RenameMatchSame(row, source_id, source) == row.table_id = source_id

\* WHERE "table_id" = $4 AND table_name = $5      (other namespace)
RenameMatchMove(row, source_id, source) ==
  row.table_id = source_id /\ row.table_name = source.name

\* A variant of the sub-select without the warehouse_id condition.
DestinationNamespaceByName(warehouse_id, namespace_name) ==
  {n.namespace_id : n \in {m \in Namespace : m.namespace_name = namespace_name}}

\* SELECT namespace_id FROM namespace WHERE warehouse_id = $2 AND namespace_name = $3
DestinationNamespace(warehouse_id, namespace_name) ==
  {n.namespace_id : n \in {m \in Namespace : /\ m.warehouse_id = warehouse_id
                                             /\ m.namespace_name = namespace_name}}

\* A variant without the constraint unique_table_name_per_namespace.
NameTakenIgnored(tbl, row, namespace_id, name) == FALSE

\* unique_table_name_per_namespace, for the row the UPDATE writes.
NameTaken(tbl, row, namespace_id, name) ==
  \E o \in tbl \ {row} : o.namespace_id = namespace_id /\ o.table_name = name

\* A variant of the SET clause that also clears metadata_location.
RenameSetNameUnstaging(row, name) ==
  [row EXCEPT !.table_name = name, !.metadata_location = None]

\* SET table_name = $1      (same namespace)
RenameSetName(row, name) == [row EXCEPT !.table_name = name]

rename_table(tbl, status, warehouse_id, source_id, source, destination) ==
  IF source.namespace = destination.namespace
  THEN LET hit == {r \in tbl : RenameMatchSame(r, source_id, source)
                               /\ RenameGate(status, warehouse_id)}
       IN IF hit = {}
          THEN [table |-> tbl, result |-> Err(404, "RenameTableIdNotFound")]
          ELSE LET r == CHOOSE x \in hit : TRUE
               IN IF NameTaken(tbl, r, r.namespace_id, destination.name)
                  THEN [table |-> tbl, result |-> Err(500, "ErrorRenamingTable")]
                  ELSE [table |-> (tbl \ {r}) \cup
                                  {RenameSetName(r, destination.name)},
                        result |-> Ok]
  ELSE LET hit == {r \in tbl : RenameMatchMove(r, source_id, source)
                               /\ RenameGate(status, warehouse_id)}
           dest == DestinationNamespace(warehouse_id, destination.namespace)
       IN IF hit = {}
          THEN [table |-> tbl, result |-> Err(404, "RenameTableIdOrNamespaceNotFound")]
          ELSE LET r == CHOOSE x \in hit : TRUE
               IN IF dest = {}
                  THEN [table |-> tbl, result |-> Err(500, "ErrorRenamingTable")]
                  ELSE LET d == CHOOSE x \in dest : TRUE
                       IN IF NameTaken(tbl, r, d, destination.name)
                          THEN [table |-> tbl, result |-> Err(500, "ErrorRenamingTable")]
                          ELSE [table |-> (tbl \ {r}) \cup
                                          {[r EXCEPT !.table_name = destination.name,
                                                     !.namespace_id = d]},
                                result |-> Ok]

(***************************************************************************)
(* drop_table: DELETE of the row, gated on an active warehouse.            *)
(***************************************************************************)
\* A variant of the DELETE that matches the rows of the table's namespace.
drop_table_of_namespace(tbl, status, table_id) ==
  LET hit == {r \in VisibleRows(tbl, status) :
                \E x \in tbl : x.table_id = table_id /\ x.namespace_id = r.namespace_id}
  IN IF hit = {}
     THEN [table |-> tbl, result |-> Err(404, "NoSuchTableError")]
     ELSE [table |-> tbl \ hit, result |-> Ok]

drop_table(tbl, status, table_id) ==
  LET hit == {r \in VisibleRows(tbl, status) : r.table_id = table_id}
  IN IF hit = {}
     THEN [table |-> tbl, result |-> Err(404, "NoSuchTableError")]
     ELSE [table |-> tbl \ hit, result |-> Ok]

(***************************************************************************)
(* Commit requests.                                                        *)
(***************************************************************************)
NotExist == [kind |-> "NotExist", uuid |-> ""]

UuidMatch(uuid) == [kind |-> "UuidMatch", uuid |-> uuid]

AssignUuid(uuid) ==
  [kind |-> "AssignUuid", uuid |-> uuid, location |-> <<>>, key |-> ""]

SetLocation(location) ==
  [kind |-> "SetLocation", uuid |-> "", location |-> location, key |-> ""]

SetProperties(key) ==
  [kind |-> "SetProperties", uuid |-> "", location |-> <<>>, key |-> key]

RemoveProperties(key) ==
  [kind |-> "RemoveProperties", uuid |-> "", location |-> <<>>, key |-> key]

\* CommitTableRequest
TableChange(identifier, requirements, updates) ==
  [identifier |-> identifier, requirements |-> requirements, updates |-> updates]

MAX_PARAMETERS == 30000

Range(f) == {f[x] : x \in DOMAIN f}

\* TableRequirementExt::assert(metadata, exists)
RequirementHolds(requirement, metadata, exists) ==
  CASE requirement.kind = "NotExist" -> ~exists
    [] requirement.kind = "UuidMatch" -> metadata.uuid = requirement.uuid
    [] OTHER -> TRUE

\* TableUpdateExt::apply(update, &mut builder) for the kinds the catalog delegates
AggregateApply(update, metadata) ==
  CASE update.kind = "SetProperties" ->
         [metadata EXCEPT !.properties = @ \cup {update.key}]
    [] update.kind = "RemoveProperties" ->
         [metadata EXCEPT !.properties = @ \ {update.key}]
    [] update.kind = "AssignUuid" -> [metadata EXCEPT !.uuid = update.uuid]
    [] update.kind = "SetLocation" -> [metadata EXCEPT !.location = update.location]
    [] OTHER -> metadata

\* storage_profile.metadata_location(&previous_location, &metadata_id)
MetadataLocation(storage_profile, location, metadata_id) ==
  [storage_profile |-> storage_profile, location |-> location, id |-> metadata_id]

(***************************************************************************)
(* get_commit_context: one SELECT of the rows of all mapped UUIDs (active  *)
(* warehouses only), then one CommitContext per change, in order.          *)
(***************************************************************************)
CommitRecords(tbl, status, table_ids) ==
  {r \in VisibleRows(tbl, status) : r.table_id \in Range(table_ids)}

ContextError(records, table_ids, change) ==
  IF change.identifier = None
  THEN Err(400, "TableIdentifierRequired")
  ELSE IF Unwrap(change.identifier) \notin DOMAIN table_ids
  THEN Err(400, "TableIdentifierNotFound")
  ELSE IF ~\E r \in records : r.table_id = table_ids[Unwrap(change.identifier)]
  THEN Err(404, "NoSuchTableError")
  ELSE Ok

CommitContext(records, table_ids, change) ==
  LET record == CHOOSE r \in records : r.table_id = table_ids[Unwrap(change.identifier)]
  IN [requirements |-> change.requirements,
      updates |-> change.updates,
      storage_profile |-> StorageProfileOf(WarehouseOf(record)),
      storage_secret_ident |-> StorageSecretOf(WarehouseOf(record)),
      metadata |-> record.metadata,
      metadata_location |-> record.metadata_location,
      namespace_id |-> record.namespace_id]

\* The first error of a sequence of results, or Ok.
FirstError(results) ==
  IF \A i \in DOMAIN results : results[i].ok
  THEN Ok
  ELSE results[CHOOSE i \in DOMAIN results :
                  /\ ~results[i].ok
                  /\ \A j \in DOMAIN results : j < i => results[j].ok]

get_commit_context(tbl, status, table_changes, table_ids) ==
  LET records == CommitRecords(tbl, status, table_ids)
      errors == [i \in DOMAIN table_changes |->
                   ContextError(records, table_ids, table_changes[i])]
      result == FirstError(errors)
  IN [result |-> result,
      contexts |-> IF result.ok
                   THEN [i \in DOMAIN table_changes |->
                           CommitContext(records, table_ids, table_changes[i])]
                   ELSE <<>>]

(***************************************************************************)
(* Requirement check of commit_table_transaction: every requirement of     *)
(* every context, in order, against the loaded metadata.                   *)
(***************************************************************************)
\* A variant that passes is_none() for the exists flag.
TableExistsInverted(context) == context.metadata_location = None

\* r.assert(&context.metadata, context.metadata_location.is_some())
TableExists(context) == context.metadata_location # None

\* The error assert returns for a requirement that does not hold.
RequirementError(requirement) ==
  IF requirement.kind = "NotExist"
  THEN Err(409, "RequirementNotExistFailed")
  ELSE Err(409, "RequirementUuidMatchFailed")

AssertRequirements(context) ==
  FirstError([i \in DOMAIN context.requirements |->
                IF RequirementHolds(context.requirements[i], context.metadata,
                                    TableExists(context))
                THEN Ok
                ELSE RequirementError(context.requirements[i])])

\* A variant in which the updates are applied before the requirements are
\* asserted: a rejected update ends the call before any requirement is looked at.
CheckRequirementsAfterUpdates(contexts) ==
  IF \E i \in DOMAIN contexts : \E k \in DOMAIN contexts[i].updates :
       \/ /\ contexts[i].updates[k].kind = "AssignUuid"
          /\ contexts[i].updates[k].uuid # contexts[i].metadata.uuid
       \/ /\ contexts[i].updates[k].kind = "SetLocation"
          /\ contexts[i].updates[k].location # contexts[i].metadata.location
  THEN Ok
  ELSE FirstError([i \in DOMAIN contexts |-> AssertRequirements(contexts[i])])

CheckRequirements(contexts) ==
  FirstError([i \in DOMAIN contexts |-> AssertRequirements(contexts[i])])

(***************************************************************************)
(* apply_commits: per context, fold the updates over the loaded metadata.  *)
(***************************************************************************)
\* A variant without the AssignUuid and SetLocation guards: every update is
\* delegated to the builder.
ApplyUpdateUnguarded(acc, update, previous_uuid, previous_location) ==
  IF ~acc.result.ok THEN acc
  ELSE [acc EXCEPT !.metadata = AggregateApply(update, acc.metadata)]

\* A variant with the comparisons of both guards inverted.
ApplyUpdateInverted(acc, update, previous_uuid, previous_location) ==
  IF ~acc.result.ok THEN acc
  ELSE CASE update.kind = "AssignUuid" ->
              IF update.uuid = previous_uuid
              THEN [acc EXCEPT !.result = Err(400, "AssignUuidNotAllowed")]
              ELSE acc
         [] update.kind = "SetLocation" ->
              IF update.location = previous_location
              THEN [acc EXCEPT !.result = Err(400, "SetLocationNotAllowed")]
              ELSE acc
         [] OTHER ->
              [acc EXCEPT !.metadata = AggregateApply(update, acc.metadata)]

\* One step of the fold: acc = [result, metadata].
ApplyUpdate(acc, update, previous_uuid, previous_location) ==
  IF ~acc.result.ok THEN acc
  ELSE CASE update.kind = "AssignUuid" ->
              IF update.uuid # previous_uuid
              THEN [acc EXCEPT !.result = Err(400, "AssignUuidNotAllowed")]
              ELSE acc
         [] update.kind = "SetLocation" ->
              IF update.location # previous_location
              THEN [acc EXCEPT !.result = Err(400, "SetLocationNotAllowed")]
              ELSE acc
         [] OTHER ->
              [acc EXCEPT !.metadata = AggregateApply(update, acc.metadata)]

RECURSIVE ApplyUpdates(_, _, _, _)
ApplyUpdates(acc, updates, previous_uuid, previous_location) ==
  IF updates = <<>> THEN acc
  ELSE ApplyUpdates(ApplyUpdate(acc, Head(updates), previous_uuid, previous_location),
                    Tail(updates), previous_uuid, previous_location)

\* The CommitTableResponseExt of one context (metadata_id is the minted UUID).
ApplyCommit(context, metadata_id) ==
  LET previous_location == context.metadata.location
      previous_uuid == context.metadata.uuid
      built == ApplyUpdates([result |-> Ok, metadata |-> context.metadata],
                            context.updates, previous_uuid, previous_location)
  IN [result |-> built.result,
      response |->
        [metadata_location |-> MetadataLocation(context.storage_profile,
                                                previous_location, metadata_id),
         metadata |-> built.metadata,
         storage_profile |-> context.storage_profile,
         storage_secret_ident |-> context.storage_secret_ident,
         previous_table_metadata |-> context.metadata]]

apply_commits(commits, metadata_ids) ==
  LET applied == [i \in DOMAIN commits |-> ApplyCommit(commits[i], metadata_ids[i])]
      result == FirstError([i \in DOMAIN commits |-> applied[i].result])
  IN [result |-> result,
      responses |-> IF result.ok
                    THEN [i \in DOMAIN commits |-> applied[i].response]
                    ELSE <<>>]

(***************************************************************************)
(* The bulk UPDATE ... FROM (VALUES ...) c WHERE c.table_id = t.table_id.  *)
(* A row matched by several VALUES rows is updated once, from one of them  *)
(* (pick names which).                                                     *)
(***************************************************************************)
UpdateMatches(row, responses) ==
  {i \in DOMAIN responses : responses[i].metadata.uuid = row.table_id}

UpdatedRows(tbl, responses) == {r \in tbl : UpdateMatches(r, responses) # {}}

ValidPick(tbl, responses, pick) ==
  \A r \in tbl :
     IF UpdateMatches(r, responses) # {}
     THEN pick[r.table_id] \in UpdateMatches(r, responses)
     ELSE pick[r.table_id] = 1

BulkUpdate(tbl, responses, pick) ==
  LET hit == UpdatedRows(tbl, responses)
  IN (tbl \ hit) \cup
     {[r EXCEPT !.metadata = responses[pick[r.table_id]].metadata,
                !.metadata_location =
                    Some(responses[pick[r.table_id]].metadata_location)] : r \in hit}

\* A variant without the check of the number of updated rows.
RowCountUnchecked(updated, responses) == TRUE

\* if updated.len() != responses.len()
\* A variant that accepts any number of updated rows.
RowCountIgnored(updated, responses) == TRUE

RowCountOk(updated, responses) == Cardinality(updated) = Len(responses)

(***************************************************************************)
(* The write transaction.  A statement executed on the transaction changes *)
(* the transaction's view; the store changes when the caller commits.      *)
(***************************************************************************)
\* A variant that runs the statement on the pool: the store changes at once.
ExecuteOnPool(store, written) == [store |-> written, view |-> written]

\* .fetch_all(&mut **transaction)
ExecuteInTransaction(store, written) == [store |-> store, view |-> written]

\* transaction.commit() after Ok; the transaction is dropped (rolled back) on Err.
TransactionEnd(exec, result) == IF result.ok THEN exec.view ELSE exec.store

(***************************************************************************)
(* commit_table_transaction, from loaded contexts on.                      *)
(***************************************************************************)
\* What commit_table_transaction returns before it checks a requirement, for
\* the result of get_commit_context and the number of changes: the `?` on
\* get_commit_context, then the bound on contexts.len().
CommitGate(loaded, n) ==
  IF ~loaded.ok THEN loaded
  ELSE IF n > MAX_PARAMETERS \div 4
       THEN Err(400, "TooManyTablesForCommit")
       ELSE Ok

CommitFromContexts(tbl, contexts, metadata_ids, pick) ==
  IF ~CommitGate(Ok, Len(contexts)).ok
  THEN [exec |-> ExecuteInTransaction(tbl, tbl), values |-> <<>>,
        result |-> Err(400, "TooManyTablesForCommit"), responses |-> <<>>]
  ELSE LET checked == CheckRequirements(contexts)
       IN IF ~checked.ok
          THEN [exec |-> ExecuteInTransaction(tbl, tbl), values |-> <<>>,
                result |-> checked, responses |-> <<>>]
          ELSE LET applied == apply_commits(contexts, metadata_ids)
               IN IF ~applied.result.ok
                  THEN [exec |-> ExecuteInTransaction(tbl, tbl), values |-> <<>>,
                        result |-> applied.result, responses |-> <<>>]
                  ELSE LET written == BulkUpdate(tbl, applied.responses, pick)
                           updated == UpdatedRows(tbl, applied.responses)
                       IN IF ~RowCountOk(updated, applied.responses)
                          THEN [exec |-> ExecuteInTransaction(tbl, written),
                                values |-> applied.responses,
                                result |-> Err(500, "CommitTableUpdateError"),
                                responses |-> <<>>]
                          ELSE [exec |-> ExecuteInTransaction(tbl, written),
                                values |-> applied.responses,
                                result |-> Ok,
                                responses |-> applied.responses]

\* values: the VALUES rows of the bulk UPDATE (empty when it is not reached).
commit_table_transaction(tbl, status, table_changes, table_ids, metadata_ids, pick) ==
  LET loaded == get_commit_context(tbl, status, table_changes, table_ids)
  IN IF ~CommitGate(loaded.result, Len(table_changes)).ok
     THEN [exec |-> ExecuteInTransaction(tbl, tbl), values |-> <<>>,
           result |-> CommitGate(loaded.result, Len(table_changes)),
           responses |-> <<>>]
     ELSE CommitFromContexts(tbl, loaded.contexts, metadata_ids, pick)

(***************************************************************************)
(* Inputs of the operations.                                               *)
(***************************************************************************)
CreateRequests ==
  {[location |-> l, properties |-> None] : l \in {None} \cup {Some(x) : x \in Locations}}

\* The metadata_location argument of create_table: None for a staged create.
CreateMetadataLocations(namespace_id, request) ==
  {None} \cup
  {Some(MetadataLocation(StorageProfileOf(n.warehouse_id), Unwrap(request.location), m)) :
     n \in {x \in Namespace : x.namespace_id = namespace_id /\ request.location # None},
     m \in MetadataIds}

NameOfNamespace(namespace_id) ==
  IF namespace_id \in NamespaceIds
  THEN (CHOOSE n \in Namespace : n.namespace_id = namespace_id).namespace_name
  ELSE <<"a">>

\* Requests of the catalog life cycle (Spec): one change each.
LifecycleChanges ==
  {TableChange(Some(TableIdent(ns, nm)), r, u) :
     ns \in {<<"a">>, <<"b">>}, nm \in TableNames,
     r \in {<<>>, <<NotExist>>},
     u \in {<<>>, <<AssignUuid("id1")>>, <<SetLocation(<<"x">>)>>}}

LifecycleRequests == {<<c>> : c \in LifecycleChanges}

(***************************************************************************)
(* table_idents_to_ids: every identifier asked for is mapped, to None when *)
(* no row of the active warehouse has it or the row is staged and          *)
(* include_staged is false.                                                *)
(***************************************************************************)
\* A variant without the loop that adds the missing identifiers.
MissingTablesDropped(tables, table_map) == {}

\* for table in &tables { if !table_map.contains_key(table) { insert(table, None) } }
MissingTables(tables, table_map) ==
  {<<t, None>> : t \in {x \in tables : ~\E e \in table_map : e[1] = x}}

\* The HashMap as the function of its entries.
MapOf(entries) ==
  [k \in {e[1] : e \in entries} |-> (CHOOSE e \in entries : e[1] = k)[2]]

\* A variant of the size check that refuses the boundary size too.
BatchGuardStrict(n) ==
  IF n = 0 THEN [result |-> Ok, queried |-> FALSE]
  ELSE IF n >= MAX_PARAMETERS \div 2
       THEN [result |-> Err(400, "TooManyTables"), queried |-> FALSE]
       ELSE [result |-> Ok, queried |-> TRUE]

\* The early returns of table_idents_to_ids for a batch of n identifiers;
\* queried: the call goes on to the SELECT.
BatchGuard(n) ==
  IF n = 0 THEN [result |-> Ok, queried |-> FALSE]
  ELSE IF n > MAX_PARAMETERS \div 2
       THEN [result |-> Err(400, "TooManyTables"), queried |-> FALSE]
       ELSE [result |-> Ok, queried |-> TRUE]

\* A variant of the filter that keeps a staged row whatever include_staged is.
StagedAlwaysKept(row, include_staged) == TRUE

\* let staged = metadata_location.is_none(); if !staged || include_staged
StagedKept(row, include_staged) == ~IsStaged(row) \/ include_staged

table_idents_to_ids(tbl, status, warehouse_id, tables, include_staged) ==
  IF ~BatchGuard(Cardinality(tables)).queried
  THEN [result |-> BatchGuard(Cardinality(tables)).result, value |-> <<>>]
  ELSE      LET rows == {r \in VisibleRows(tbl, status) :
                           /\ WarehouseOf(r) = warehouse_id
                           /\ TableIdent(NamespaceOf(r).namespace_name, r.table_name)
                                \in tables}
                table_map ==
                  {<<TableIdent(NamespaceOf(r).namespace_name, r.table_name),
                     Some(r.table_id)>> :
                     r \in {x \in rows : StagedKept(x, include_staged)}}
            IN [result |-> Ok,
                value |-> MapOf(table_map \cup MissingTables(tables, table_map))]

\* A variant that resolves an identifier by its namespace alone.
ResolvedTableIdsByNamespace(tbl, status, warehouse_id, table_changes) ==
  LET named == {Unwrap(table_changes[i].identifier) :
                  i \in {j \in DOMAIN table_changes : table_changes[j].identifier # None}}
      InNamespace(i) == {r \in VisibleRows(tbl, status) :
                           /\ WarehouseOf(r) = warehouse_id
                           /\ NamespaceOf(r).namespace_name = i.namespace}
      found == {i \in named : InNamespace(i) # {}}
  IN [i \in found |-> (CHOOSE r \in InNamespace(i) : TRUE).table_id]

\* The table_ids argument, as the service resolves it: every identifier of the
\* request that names a table of the warehouse (staged ones included).
ResolvedTableIds(tbl, status, warehouse_id, table_changes) ==
  LET named == {Unwrap(table_changes[i].identifier) :
                  i \in {j \in DOMAIN table_changes : table_changes[j].identifier # None}}
      found == {i \in named : table_ident_to_id(tbl, status, warehouse_id, i, TRUE) # None}
  IN [i \in found |-> Unwrap(table_ident_to_id(tbl, status, warehouse_id, i, TRUE))]

(***************************************************************************)
(* Spec: the operations, each in its own write transaction.  last is the   *)
(* call that ran and its response, until the caller has taken it.          *)
(***************************************************************************)
Idle == [op |-> "idle", request |-> <<>>, before |-> {}, result |-> Ok, value |-> <<>>]

\* The concurrent write transactions of SpecTx.
Procs == {"p1", "p2"}

TxIdle ==
  [pc |-> "idle", request |-> <<>>, before |-> {}, table_changes |-> <<>>,
   table_ids |-> <<>>, contexts |-> <<>>, responses |-> <<>>, written |-> {},
   result |-> Ok]

NoTx == [p \in Procs |-> TxIdle]

\* before: the rows of "table" when the operation was called.
Done(op, request, before, result, value) ==
  [op |-> op, request |-> request, before |-> before, result |-> result,
   value |-> value]

\* The call as the life cycle of Spec keeps it: the operation and its result.
Brief(op, request, before, result, value) == Done(op, <<>>, {}, result, <<>>)

Record(brief, op, request, before, result, value) ==
  IF brief THEN Brief(op, request, before, result, value)
  ELSE Done(op, request, before, result, value)

Init ==
  /\ NoService
  /\ table = {}
  /\ warehouse_status = [w \in Warehouses |-> "active"]
  /\ last = Idle
  /\ tx = NoTx

CreateAction(brief) ==
  /\ last = Idle
  /\ \E namespace_id \in NamespaceIds \cup UnknownNamespaceIds, name \in TableNames,
        table_id \in TableIds, request \in CreateRequests :
       \E metadata_location \in CreateMetadataLocations(namespace_id, request) :
         LET r == create_table(table, warehouse_status, namespace_id,
                               TableIdent(NameOfNamespace(namespace_id), name),
                               table_id, request, metadata_location)
         IN /\ table' = TransactionEnd(ExecuteInTransaction(table, r.table), r.result)
            /\ last' = Record(brief, "create_table",
                            [namespace_id |-> namespace_id, name |-> name,
                             table_id |-> table_id, request |-> request,
                             metadata_location |-> metadata_location],
                            table, r.result, r.table_metadata)
            /\ UNCHANGED <<warehouse, secrets, task, warehouse_status, tx>>

CreateTable == CreateAction(TRUE)

RenameAction(brief) ==
  /\ last = Idle
  /\ \E warehouse_id \in Warehouses, source_id \in TableIds,
        source \in TableIdents, destination \in TableIdents :
       LET r == rename_table(table, warehouse_status, warehouse_id, source_id,
                             source, destination)
       IN /\ table' = TransactionEnd(ExecuteInTransaction(table, r.table), r.result)
          /\ last' = Record(brief, "rename_table",
                          [warehouse_id |-> warehouse_id, source_id |-> source_id,
                           source |-> source, destination |-> destination],
                          table, r.result, <<>>)
          /\ UNCHANGED <<warehouse, secrets, task, warehouse_status, tx>>

RenameTable == RenameAction(TRUE)

DropAction(brief) ==
  /\ last = Idle
  /\ \E table_id \in TableIds :
       LET r == drop_table(table, warehouse_status, table_id)
       IN /\ table' = TransactionEnd(ExecuteInTransaction(table, r.table), r.result)
          /\ last' = Record(brief, "drop_table", [table_id |-> table_id], table,
                          r.result, <<>>)
          /\ UNCHANGED <<warehouse, secrets, task, warehouse_status, tx>>

DropTable == DropAction(TRUE)

FreshTableIds(warehouse_id, table_changes) ==
  {ResolvedTableIds(table, warehouse_status, warehouse_id, table_changes)}

\* table_ids as resolved right before the call, or by an earlier resolution
\* whose tables have since been dropped or created again: any map of the
\* resolved identifiers to table ids.
AnyTableIds(warehouse_id, table_changes) ==
  LET fresh == ResolvedTableIds(table, warehouse_status, warehouse_id, table_changes)
  IN {fresh} \cup [DOMAIN fresh -> TableIds]

TableIdMaps(stale, warehouse_id, table_changes) ==
  IF stale THEN AnyTableIds(warehouse_id, table_changes)
  ELSE FreshTableIds(warehouse_id, table_changes)

\* The picks of the bulk UPDATE with the VALUES rows values.
ValidPicks(tbl, values) ==
  IF values = <<>> THEN {[id \in TableIds |-> 1]}
  ELSE {pick \in [TableIds -> DOMAIN values] :
          /\ ValidPick(tbl, values, pick)
          /\ \A id \in TableIds \ {r.table_id : r \in tbl} : pick[id] = 1}

\* commit_table_transaction in its own write transaction, for a request of
\* requests and a table_ids map that is fresh or, if stale, any map.
CommitAction(requests, stale, brief) ==
  /\ last = Idle
  /\ \E warehouse_id \in Warehouses, table_changes \in requests :
       \E table_ids \in TableIdMaps(stale, warehouse_id, table_changes),
          metadata_ids \in [DOMAIN table_changes -> MetadataIds] :
         \E pick \in ValidPicks(table,
                                commit_table_transaction(
                                  table, warehouse_status, table_changes, table_ids,
                                  metadata_ids, [id \in TableIds |-> 1]).values) :
         LET r == commit_table_transaction(table, warehouse_status, table_changes,
                                           table_ids, metadata_ids, pick)
         IN /\ table' = TransactionEnd(r.exec, r.result)
            /\ last' = Record(brief, "commit_table_transaction",
                            [table_changes |-> table_changes, table_ids |-> table_ids],
                            table, r.result, r.responses)
            /\ UNCHANGED <<warehouse, secrets, task, warehouse_status, tx>>

CommitTableTransaction == CommitAction(LifecycleRequests, FALSE, TRUE)

\* activate_warehouse / deactivate_warehouse
SetWarehouseStatus ==
  /\ last = Idle
  /\ \E w \in Warehouses, s \in {"active", "inactive"} :
       /\ warehouse_status[w] # s
       /\ warehouse_status' = [warehouse_status EXCEPT ![w] = s]
       /\ last' = Brief("set_warehouse_status", [warehouse_id |-> w, status |-> s],
                       table, Ok, <<>>)
       /\ UNCHANGED <<warehouse, secrets, task, table, tx>>

\* The caller takes the response.
Respond ==
  /\ last # Idle
  /\ last' = Idle
  /\ UNCHANGED <<warehouse, secrets, task, table, warehouse_status, tx>>

Next ==
  \/ CreateTable
  \/ RenameTable
  \/ DropTable
  \/ CommitTableTransaction
  \/ SetWarehouseStatus
  \/ Respond

Spec == Init /\ [][Next]_vars

(***************************************************************************)
(* SpecCommit: commit_table_transaction on catalogs that create_table and  *)
(* earlier commits leave, for requests of up to MaxChanges changes and for *)
(* table_ids maps resolved before the call (fresh or stale).               *)
(***************************************************************************)
\* Largest number of changes of one CommitTransactionRequest.
MaxChanges == 2

CatalogRow(table_id, namespace_id, name, location, properties, metadata_location) ==
  [table_id |-> table_id, namespace_id |-> namespace_id, table_name |-> name,
   metadata |-> TableMetadata(table_id, location, properties),
   metadata_location |-> metadata_location, table_location |-> location]

\* The rows create_table (and a commit) can leave for table_id under (namespace_id, name).
CatalogRows(table_id, namespace_id, name, location) ==
  {CatalogRow(table_id, namespace_id, name, location, properties, metadata_location) :
     properties \in {{}, {"k1"}},
     metadata_location \in
       {None, Some(MetadataLocation(
                     StorageProfileOf((CHOOSE n \in Namespace :
                                         n.namespace_id = namespace_id).warehouse_id),
                     location, 1))}}

CommitCatalogs ==
  {{r1} : r1 \in CatalogRows("id1", "n1", "t", <<"x">>)} \cup
  {{r1, r2} : r1 \in CatalogRows("id1", "n1", "t", <<"x">>),
              r2 \in {r \in CatalogRows("id2", "n1", "u", <<"x", "y">>)
                              \cup CatalogRows("id2", "n3", "t", <<"x", "y">>) :
                        r.metadata.properties = {}}}

RequirementSeqs ==
  {<<>>, <<NotExist>>} \cup {<<UuidMatch(u)>> : u \in TableIds}

UpdateSeqs ==
  {<<>>,
   <<SetProperties("k1")>>,
   <<SetProperties("k2"), RemoveProperties("k1")>>,
   <<SetProperties("k1"), RemoveProperties("k1")>>,
   <<RemoveProperties("k1"), SetProperties("k1")>>}
  \cup {<<AssignUuid(u)>> : u \in TableIds}
  \cup {<<SetProperties("k1"), SetLocation(l)>> : l \in Locations}

CommitIdentifiers ==
  {None, Some(TableIdent(<<"a">>, "t")), Some(TableIdent(<<"a">>, "u")),
   Some(TableIdent(<<"b">>, "t"))}

Changes ==
  {TableChange(i, r, u) : i \in CommitIdentifiers, r \in RequirementSeqs, u \in UpdateSeqs}

\* Changes of the requests with more than one change.
PairChanges ==
  {TableChange(Some(TableIdent(<<"a">>, "t")), <<NotExist>>, <<SetProperties("k1")>>),
   TableChange(Some(TableIdent(<<"a">>, "u")), <<NotExist>>, <<SetProperties("k1")>>),
   TableChange(Some(TableIdent(<<"a">>, "t")), <<UuidMatch("id1")>>,
               <<SetProperties("k2")>>)}

CommitRequests ==
  {<<c>> : c \in Changes} \cup
  UNION {[1..n -> PairChanges] : n \in 2..MaxChanges}

InitCommit ==
  /\ NoService
  /\ table \in CommitCatalogs
  /\ warehouse_status \in [Warehouses -> {"active", "inactive"}]
  /\ last = Idle
  /\ tx = NoTx

CommitTransaction == CommitAction(CommitRequests, TRUE, FALSE)

NextCommit ==
  \/ CommitTransaction
  \/ Respond

SpecCommit == InitCommit /\ [][NextCommit]_vars

(***************************************************************************)
(* SpecCreate: create_table on the same catalogs.                          *)
(***************************************************************************)
InitCreate ==
  /\ NoService
  /\ table \in CommitCatalogs
  /\ warehouse_status \in [Warehouses -> {"active", "inactive"}]
  /\ last = Idle
  /\ tx = NoTx

CreateTableCall == CreateAction(FALSE)

NextCreate ==
  \/ CreateTableCall
  \/ Respond

SpecCreate == InitCreate /\ [][NextCreate]_vars

(***************************************************************************)
(* SpecRename: rename_table on the same catalogs.                          *)
(***************************************************************************)
InitRename ==
  /\ NoService
  /\ table \in CommitCatalogs
  /\ warehouse_status \in [Warehouses -> {"active", "inactive"}]
  /\ last = Idle
  /\ tx = NoTx

RenameTableCall == RenameAction(FALSE)

NextRename ==
  \/ RenameTableCall
  \/ Respond

SpecRename == InitRename /\ [][NextRename]_vars

(***************************************************************************)
(* SpecLocation: one get_table_metadata_by_s3_location on a catalog whose  *)
(* table locations are strings over LocationChars.                         *)
(***************************************************************************)
LocationChars == {"x", "_"}

MaxPathLen == 3

Strings(n) == UNION {[1..k -> LocationChars] : k \in 0..n}

StoredLocations == Strings(MaxPathLen - 1) \ {<<>>}

Paths == Strings(MaxPathLen)

LocationRows(table_id, namespace_id, name) ==
  {CatalogRow(table_id, namespace_id, name, l, {}, m) :
     l \in StoredLocations,
     m \in {None, Some(MetadataLocation(StorageProfileOf("w1"), <<"x">>, 1))}}

LocationCatalogs ==
  {{r1} \cup rest :
     r1 \in LocationRows("id1", "n1", "t"),
     rest \in {{}} \cup {{r2} : r2 \in LocationRows("id2", "n1", "u")
                                      \cup LocationRows("id2", "n3", "t")}}

InitLocation ==
  /\ NoService
  /\ table \in LocationCatalogs
  /\ warehouse_status \in [Warehouses -> {"active", "inactive"}]
  /\ last = Idle
  /\ tx = NoTx

GetTableMetadataByLocation ==
  /\ last = Idle
  /\ \E warehouse_id \in Warehouses, location \in Paths, include_staged \in BOOLEAN :
       \E r \in get_table_metadata_by_s3_location(table, warehouse_status, warehouse_id,
                                                  location, include_staged) :
         last' = Done("get_table_metadata_by_s3_location",
                      [warehouse_id |-> warehouse_id, location |-> location,
                       include_staged |-> include_staged],
                      table, r.result, r.value)
  /\ UNCHANGED <<warehouse, secrets, task, table, warehouse_status, tx>>

NextLocation ==
  \/ GetTableMetadataByLocation
  \/ Respond

SpecLocation == InitLocation /\ [][NextLocation]_vars

(***************************************************************************)
(* SpecGate: one call of any operation of the table catalog, on a catalog  *)
(* of CommitCatalogs with each warehouse active or inactive.               *)
(***************************************************************************)
InitGate ==
  /\ NoService
  /\ table \in CommitCatalogs
  /\ warehouse_status \in [Warehouses -> {"active", "inactive"}]
  /\ last = Idle
  /\ tx = NoTx

\* A read on the read pool: the call and what it returned.
ReadCall(op, request, result, value) ==
  /\ last = Idle
  /\ last' = Done(op, request, table, result, value)
  /\ UNCHANGED <<warehouse, secrets, task, table, warehouse_status, tx>>

TableIdentToId ==
  \E warehouse_id \in Warehouses, ident \in TableIdents, include_staged \in BOOLEAN :
    ReadCall("table_ident_to_id",
             [warehouse_id |-> warehouse_id, ident |-> ident,
              include_staged |-> include_staged],
             Ok,
             table_ident_to_id(table, warehouse_status, warehouse_id, ident,
                               include_staged))

TableIdentsToIds ==
  \E warehouse_id \in Warehouses, tables \in SUBSET TableIdents,
     include_staged \in BOOLEAN :
    LET r == table_idents_to_ids(table, warehouse_status, warehouse_id, tables,
                                 include_staged)
    IN ReadCall("table_idents_to_ids",
                [warehouse_id |-> warehouse_id, tables |-> tables,
                 include_staged |-> include_staged],
                r.result, Some(r.value))

LoadTable ==
  \E warehouse_id \in Warehouses, ident \in TableIdents :
    LET r == load_table(table, warehouse_status, warehouse_id, ident)
    IN ReadCall("load_table", [warehouse_id |-> warehouse_id, ident |-> ident],
                r.result, r.value)

GetTableMetadataById ==
  \E warehouse_id \in Warehouses, table_id \in TableIds, include_staged \in BOOLEAN :
    \E r \in get_table_metadata_by_id(table, warehouse_status, warehouse_id, table_id,
                                      include_staged) :
      ReadCall("get_table_metadata_by_id",
               [warehouse_id |-> warehouse_id, table_id |-> table_id,
                include_staged |-> include_staged],
               r.result, r.value)

ListTables ==
  \E warehouse_id \in Warehouses, namespace \in NamespaceNames,
     include_staged \in BOOLEAN :
    ReadCall("list_tables",
             [warehouse_id |-> warehouse_id, namespace |-> namespace,
              include_staged |-> include_staged],
             Ok,
             Some(list_tables(table, warehouse_status, warehouse_id, namespace,
                              include_staged)))

DropTableCall == DropAction(FALSE)

GateCommit == CommitAction(LifecycleRequests, TRUE, FALSE)

NextGate ==
  \/ TableIdentToId
  \/ TableIdentsToIds
  \/ LoadTable
  \/ GetTableMetadataById
  \/ GetTableMetadataByLocation
  \/ ListTables
  \/ CreateTableCall
  \/ RenameTableCall
  \/ DropTableCall
  \/ GateCommit

SpecGate == InitGate /\ [][NextGate]_vars

(***************************************************************************)
(* SpecRetry: a mutating call that succeeded, followed at once by the same *)
(* call again.  last holds the first call until the retry, and then the    *)
(* retry with the relation it started from.                                *)
(***************************************************************************)
InitRetry ==
  /\ NoService
  /\ table \in CommitCatalogs
  /\ warehouse_status = [w \in Warehouses |-> "active"]
  /\ last = Idle
  /\ tx = NoTx

FirstCommit == CommitAction(CommitRequests, FALSE, FALSE)

\* uuid::Uuid::now_v7() of a later call: a value no earlier call has drawn.
LaterMetadataIds == {MaxMetadataId + 1}

Retried(op, result) ==
  /\ last' = Done("retry", [op |-> op], table, result, <<>>)
  /\ UNCHANGED <<warehouse, secrets, task, warehouse_status, tx>>

RetryCreate ==
  /\ last.op = "create_table" /\ last.result.ok
  /\ LET q == last.request
         r == create_table(table, warehouse_status, q.namespace_id,
                           TableIdent(NameOfNamespace(q.namespace_id), q.name),
                           q.table_id, q.request, q.metadata_location)
     IN /\ table' = TransactionEnd(ExecuteInTransaction(table, r.table), r.result)
        /\ Retried("create_table", r.result)

RetryRename ==
  /\ last.op = "rename_table" /\ last.result.ok
  /\ LET q == last.request
         r == rename_table(table, warehouse_status, q.warehouse_id, q.source_id,
                           q.source, q.destination)
     IN /\ table' = TransactionEnd(ExecuteInTransaction(table, r.table), r.result)
        /\ Retried("rename_table", r.result)

RetryDrop ==
  /\ last.op = "drop_table" /\ last.result.ok
  /\ LET r == drop_table(table, warehouse_status, last.request.table_id)
     IN /\ table' = TransactionEnd(ExecuteInTransaction(table, r.table), r.result)
        /\ Retried("drop_table", r.result)

RetryCommit ==
  /\ last.op = "commit_table_transaction" /\ last.result.ok
  /\ LET q == last.request
     IN \E metadata_ids \in [DOMAIN q.table_changes -> LaterMetadataIds] :
          \E pick \in ValidPicks(table,
                                 commit_table_transaction(
                                   table, warehouse_status, q.table_changes,
                                   q.table_ids, metadata_ids,
                                   [id \in TableIds |-> 1]).values) :
            LET r == commit_table_transaction(table, warehouse_status,
                                              q.table_changes, q.table_ids,
                                              metadata_ids, pick)
            IN /\ table' = TransactionEnd(r.exec, r.result)
               /\ Retried("commit_table_transaction", r.result)

NextRetry ==
  \/ CreateTableCall
  \/ RenameTableCall
  \/ DropTableCall
  \/ FirstCommit
  \/ RetryCreate
  \/ RetryRename
  \/ RetryDrop
  \/ RetryCommit

SpecRetry == InitRetry /\ [][NextRetry]_vars

(***************************************************************************)
(* SpecOrder: commits of two changes, one with an update the update guard  *)
(* may reject and one with a requirement that may fail, in both orders.    *)
(***************************************************************************)
GuardedChanges ==
  {TableChange(Some(TableIdent(<<"a">>, "t")), <<>>, u) :
     u \in {<<AssignUuid("id1")>>, <<AssignUuid("id2")>>,
            <<SetLocation(<<"x">>)>>, <<SetLocation(<<"x", "y">>)>>,
            <<SetProperties("k1")>>}}

RequiringChanges ==
  {TableChange(Some(TableIdent(<<"a">>, "u")), r, <<SetProperties("k1")>>) :
     r \in {<<>>, <<NotExist>>, <<UuidMatch("id1")>>, <<UuidMatch("id2")>>,
            <<UuidMatch("id2"), NotExist>>}}

OrderRequests ==
  {<<g, r>> : g \in GuardedChanges, r \in RequiringChanges} \cup
  {<<r, g>> : g \in GuardedChanges, r \in RequiringChanges}

OrderedCommit == CommitAction(OrderRequests, FALSE, FALSE)

SpecOrder == InitRetry /\ [][OrderedCommit \/ Respond]_vars

(***************************************************************************)
(* SpecBatch: the size check of table_idents_to_ids on batches of the      *)
(* sizes around the limit, which no catalog of SpecGate can hold.          *)
(***************************************************************************)
BatchSizes ==
  (0 .. 3) \cup ((MAX_PARAMETERS \div 2 - 60) .. (MAX_PARAMETERS \div 2 + 60))
  \cup {MAX_PARAMETERS - 1, MAX_PARAMETERS, MAX_PARAMETERS + 1}

CheckBatchSize ==
  /\ last = Idle
  /\ \E n \in BatchSizes :
       last' = Done("table_idents_to_ids", [size |-> n], {},
                    BatchGuard(n).result, Some(BatchGuard(n).queried))
  /\ UNCHANGED <<warehouse, secrets, task, table, warehouse_status, tx>>

\* Transactions of the sizes around the commit limit, by the number of their
\* changes and by what get_commit_context returns for them.
CommitSizes ==
  (1 .. 3) \cup ((MAX_PARAMETERS \div 4 - 10) .. (MAX_PARAMETERS \div 4 + 10))
  \cup {MAX_PARAMETERS}

LoadOutcomes ==
  {Ok, Err(400, "TableIdentifierRequired"), Err(400, "TableIdentifierNotFound"),
   Err(404, "NoSuchTableError")}

CheckCommitSize ==
  /\ last = Idle
  /\ \E n \in CommitSizes, loaded \in LoadOutcomes :
       last' = Done("commit_table_transaction", [size |-> n, loaded |-> loaded],
                    {}, CommitGate(loaded, n), <<>>)
  /\ UNCHANGED <<table, warehouse_status, tx, warehouse, secrets, task>>

SpecBatch == Init /\ [][CheckBatchSize \/ CheckCommitSize \/ Respond]_vars

(***************************************************************************)
(* SpecTx: two write transactions (pool.begin(): READ COMMITTED) that each *)
(* run commit_table_transaction, statement by statement.  A SELECT reads   *)
(* the committed rows; the UPDATE locks the rows it changes until the      *)
(* transaction ends, waits for rows another transaction has locked, and    *)
(* then changes the committed version of the row.                          *)
(***************************************************************************)
TxCatalogs ==
  {{r1, r2} :
     r1 \in {CatalogRow("id1", "n1", "t", <<"x">>, {}, m) :
               m \in {None, Some(MetadataLocation(StorageProfileOf("w1"), <<"x">>, 1))}},
     r2 \in {CatalogRow("id2", "n1", "u", <<"x", "y">>, {}, m) :
               m \in {None, Some(MetadataLocation(StorageProfileOf("w1"), <<"x", "y">>, 1))}}}

TxChanges ==
  {TableChange(Some(TableIdent(<<"a">>, nm)), r, <<SetProperties(k)>>) :
     nm \in TableNames, r \in {<<>>, <<NotExist>>, <<UuidMatch("id1")>>}, k \in PropKeys}

TxRequests ==
  {<<c>> : c \in TxChanges} \cup
  {<<TableChange(Some(TableIdent(<<"a">>, "t")), <<>>, <<SetProperties(k)>>),
     TableChange(Some(TableIdent(<<"a">>, "u")), <<>>, <<SetProperties(k)>>)>> :
     k \in PropKeys}

RowIds(rows) == {r.table_id : r \in rows}

\* The rows transaction q has locked and not yet released.
LockedBy(q) == IF tx[q].pc \in {"updated", "failed"} THEN RowIds(tx[q].written) ELSE {}

InitTx ==
  /\ NoService
  /\ table \in TxCatalogs
  /\ warehouse_status = [w \in Warehouses |-> "active"]
  /\ last = Idle
  /\ tx = NoTx

\* The service resolves the identifiers and begins the write transaction.
TxBegin(p) ==
  /\ tx[p].pc = "idle"
  /\ \E table_changes \in TxRequests :
       tx' = [tx EXCEPT ![p] =
                [TxIdle EXCEPT !.pc = "begun",
                               !.table_changes = table_changes,
                               !.table_ids = ResolvedTableIds(table, warehouse_status,
                                                              "w1", table_changes)]]
  /\ UNCHANGED <<warehouse, secrets, task, table, warehouse_status, last>>

\* get_commit_context: the SELECT of the transaction.
TxLoad(p) ==
  /\ tx[p].pc = "begun"
  /\ LET loaded == get_commit_context(table, warehouse_status,
                                      tx[p].table_changes, tx[p].table_ids)
     IN tx' = [tx EXCEPT ![p].pc = IF loaded.result.ok THEN "loaded" ELSE "failed",
                         ![p].contexts = loaded.contexts,
                         ![p].result = loaded.result]
  /\ UNCHANGED <<warehouse, secrets, task, table, warehouse_status, last>>

\* The requirement check, apply_commits and the bulk UPDATE.
TxUpdate(p) ==
  /\ tx[p].pc = "loaded"
  /\ \E metadata_ids \in [DOMAIN tx[p].contexts -> MetadataIds],
        pick \in [TableIds -> DOMAIN tx[p].contexts] :
       LET r == CommitFromContexts(table, tx[p].contexts, metadata_ids, pick)
           hit == RowIds(UpdatedRows(table, r.values))
       IN /\ pick \in ValidPicks(table, r.values)
          /\ \A q \in Procs \ {p} : hit \cap LockedBy(q) = {}
          /\ tx' = [tx EXCEPT ![p].pc = IF r.result.ok THEN "updated" ELSE "failed",
                              ![p].responses = r.responses,
                              ![p].written = {w \in r.exec.view : w.table_id \in hit},
                              ![p].result = r.result]
  /\ UNCHANGED <<warehouse, secrets, task, table, warehouse_status, last>>

\* transaction.commit()
TxCommit(p) ==
  /\ tx[p].pc = "updated"
  /\ table' = TransactionEnd(
                [store |-> table,
                 view |-> {r \in table :
                             /\ r.table_id \notin RowIds(tx[p].written)
                             /\ <<r.namespace_id, r.table_name>>
                                  \notin {<<w.namespace_id, w.table_name>> :
                                             w \in tx[p].written}}
                          \cup tx[p].written],
                tx[p].result)
  /\ tx' = [tx EXCEPT ![p].pc = "committed", ![p].written = {}]
  /\ UNCHANGED <<warehouse, secrets, task, warehouse_status, last>>

\* The transaction is dropped after an error.
TxRollback(p) ==
  /\ tx[p].pc = "failed"
  /\ tx' = [tx EXCEPT ![p].pc = "rolled_back", ![p].written = {}]
  /\ UNCHANGED <<warehouse, secrets, task, table, warehouse_status, last>>

NextTx ==
  \E p \in Procs :
    \/ TxBegin(p)
    \/ TxLoad(p)
    \/ TxUpdate(p)
    \/ TxCommit(p)
    \/ TxRollback(p)

SpecTx == InitTx /\ [][NextTx]_vars

(***************************************************************************)
(* SpecTxDrop: the commit transactions of SpecTx, which may also name one  *)
(* table in two changes, while other requests drop tables: drop_table in a *)
(* transaction of its own that commits at once, and that waits for a row   *)
(* an open transaction has locked.                                         *)
(***************************************************************************)
TwiceRequests ==
  {<<TableChange(Some(TableIdent(<<"a">>, "t")), <<>>, <<SetProperties("k1")>>),
     TableChange(Some(TableIdent(<<"a">>, "t")), <<>>, <<SetProperties("k2")>>)>>}

TxBeginTwice(p) ==
  /\ tx[p].pc = "idle"
  /\ \E table_changes \in TwiceRequests :
       tx' = [tx EXCEPT ![p] =
                [TxIdle EXCEPT !.pc = "begun",
                               !.table_changes = table_changes,
                               !.table_ids = ResolvedTableIds(table, warehouse_status,
                                                              "w1", table_changes)]]
  /\ UNCHANGED <<warehouse, secrets, task, table, warehouse_status, last>>

DropCommitted ==
  \E table_id \in RowIds(table) :
    /\ \A q \in Procs : table_id \notin LockedBy(q)
    /\ LET r == drop_table(table, warehouse_status, table_id)
       IN table' = TransactionEnd(ExecuteInTransaction(table, r.table), r.result)
    /\ UNCHANGED <<warehouse, secrets, task, warehouse_status, last, tx>>

NextTxDrop ==
  \/ \E p \in Procs :
       \/ TxBegin(p)
       \/ TxBeginTwice(p)
       \/ TxLoad(p)
       \/ TxUpdate(p)
       \/ TxCommit(p)
       \/ TxRollback(p)
  \/ DropCommitted

SpecTxDrop == InitTx /\ [][NextTxDrop]_vars

(***************************************************************************)
(* SpecRenameTx: two write transactions that each run rename_table, and a  *)
(* reader on the read pool.  The UPDATE of a rename changes the            *)
(* transaction's version of the row; readers see the committed rows.  An   *)
(* UPDATE waits for a row another transaction has locked, and for a        *)
(* (namespace_id, table_name) index entry another transaction has written  *)
(* or is about to remove.                                                  *)
(***************************************************************************)
RenameWarehouse == "w1"

NameKeys(rows) == {<<r.namespace_id, r.table_name>> : r \in rows}

\* The index entries transaction q holds: of the row versions it wrote and of
\* the committed versions they replace.
HeldBy(q) ==
  IF tx[q].pc = "updated"
  THEN NameKeys(tx[q].written) \cup
       NameKeys({r \in table : r.table_id \in RowIds(tx[q].written)})
  ELSE {}

\* The index entries the UPDATE of the request would write.
RenameTarget(tbl, request) ==
  {<<IF request.source.namespace = request.destination.namespace
     THEN r.namespace_id ELSE d, request.destination.name>> :
     r \in {x \in tbl : x.table_id = request.source_id},
     d \in DestinationNamespace(request.warehouse_id, request.destination.namespace)
           \cup {"none"}}

InitRenameTx ==
  /\ NoService
  /\ table \in CommitCatalogs
  /\ warehouse_status = [w \in Warehouses |-> "active"]
  /\ last = Idle
  /\ tx = NoTx

\* The caller resolves the source identifier and begins the write transaction.
RenameBegin(p) ==
  /\ tx[p].pc = "idle"
  /\ \E source \in TableIdents, destination \in TableIdents :
       LET source_id == table_ident_to_id(table, warehouse_status, RenameWarehouse,
                                          source, TRUE)
       IN /\ IsSome(source_id)
          /\ tx' = [tx EXCEPT ![p] =
                      [TxIdle EXCEPT !.pc = "begun",
                                     !.request = [warehouse_id |-> RenameWarehouse,
                                                  source_id |-> Unwrap(source_id),
                                                  source |-> source,
                                                  destination |-> destination]]]
  /\ UNCHANGED <<warehouse, secrets, task, table, warehouse_status, last>>

\* The UPDATE of rename_table, on the transaction.
RenameUpdate(p) ==
  /\ tx[p].pc = "begun"
  /\ LET rq == tx[p].request
         r == rename_table(table, warehouse_status, rq.warehouse_id, rq.source_id,
                           rq.source, rq.destination)
         exec == ExecuteInTransaction(table, r.table)
     IN /\ \A q \in Procs \ {p} :
             /\ rq.source_id \notin LockedBy(q)
             /\ RenameTarget(table, rq) \cap HeldBy(q) = {}
        /\ tx' = [tx EXCEPT ![p].pc = IF r.result.ok THEN "updated" ELSE "failed",
                            ![p].written = exec.view \ table,
                            ![p].result = r.result]
        /\ table' = exec.store
  /\ UNCHANGED <<warehouse, secrets, task, warehouse_status, last>>

\* A reader: table_ident_to_id on the read pool.
ResolveIdent ==
  /\ last = Idle
  /\ \E ident \in TableIdents :
       last' = Done("table_ident_to_id",
                    [warehouse_id |-> RenameWarehouse, ident |-> ident], {}, Ok,
                    table_ident_to_id(table, warehouse_status, RenameWarehouse,
                                      ident, TRUE))
  /\ UNCHANGED <<warehouse, secrets, task, table, warehouse_status, tx>>

NextRenameTx ==
  \/ \E p \in Procs :
       \/ RenameBegin(p)
       \/ RenameUpdate(p)
       \/ TxCommit(p)
       \/ TxRollback(p)
  \/ ResolveIdent
  \/ Respond

SpecRenameTx == InitRenameTx /\ [][NextRenameTx]_vars

(***************************************************************************)
(* SpecCreateTx: two write transactions that each run create_table once,   *)
(* with a table_id of their own, on an empty catalog.  The INSERT waits    *)
(* while another transaction holds an uncommitted row of the same          *)
(* (namespace_id, table_name); it then sees the committed row, if any, in  *)
(* its ON CONFLICT clause.                                                 *)
(***************************************************************************)
CreatorId(p) == IF p = "p1" THEN "id1" ELSE "id2"

CreateNamespace == "n1"

InitCreateTx ==
  /\ NoService
  /\ table = {}
  /\ warehouse_status = [w \in Warehouses |-> "active"]
  /\ last = Idle
  /\ tx = NoTx

\* The service draws the table_id and begins the write transaction.
CreateBegin(p) ==
  /\ tx[p].pc = "idle"
  /\ \E name \in TableNames, location \in Locations :
       LET request == [location |-> Some(location), properties |-> None]
       IN \E metadata_location \in CreateMetadataLocations(CreateNamespace, request) :
            tx' = [tx EXCEPT ![p] =
                     [TxIdle EXCEPT !.pc = "begun",
                                    !.request = [namespace_id |-> CreateNamespace,
                                                 name |-> name,
                                                 table_id |-> CreatorId(p),
                                                 request |-> request,
                                                 metadata_location |-> metadata_location]]]
  /\ UNCHANGED <<warehouse, secrets, task, table, warehouse_status, last>>

\* The INSERT ... ON CONFLICT of create_table, on the transaction.
CreateInsert(p) ==
  /\ tx[p].pc = "begun"
  /\ LET rq == tx[p].request
         r == create_table(table, warehouse_status, rq.namespace_id,
                           TableIdent(NameOfNamespace(rq.namespace_id), rq.name),
                           rq.table_id, rq.request, rq.metadata_location)
         exec == ExecuteInTransaction(table, r.table)
     IN /\ \A q \in Procs \ {p} : <<rq.namespace_id, rq.name>> \notin HeldBy(q)
        /\ tx' = [tx EXCEPT ![p].pc = IF r.result.ok THEN "updated" ELSE "failed",
                            ![p].before = table,
                            ![p].written = exec.view \ table,
                            ![p].result = r.result]
        /\ table' = exec.store
  /\ UNCHANGED <<warehouse, secrets, task, warehouse_status, last>>

NextCreateTx ==
  \E p \in Procs :
    \/ CreateBegin(p)
    \/ CreateInsert(p)
    \/ TxCommit(p)
    \/ TxRollback(p)

SpecCreateTx == InitCreateTx /\ [][NextCreateTx]_vars

(***************************************************************************)
(* SpecWarehouse: the warehouse operations of the management service       *)
(* (api/management/v1/warehouse.rs).  create_warehouse runs as the task    *)
(* it is: one step per awaited call, each of which may fail, and the       *)
(* caller may drop the task at any of them.  warehouse holds the committed *)
(* rows of the warehouse relation, secrets the handles the secret store    *)
(* holds, task the request in progress with the rows its transaction has   *)
(* written and not yet committed.                                          *)
(***************************************************************************)
ProjectIds == {"p1", "p2"}

WarehouseNames == {"a", "b"}

NewWarehouseIds == {"w3", "w4"}

SecretIds == {"s1", "s2"}

Credentials == {None, Some("access-key")}

CreateWarehouseRequests ==
  [warehouse_name : WarehouseNames, project_id : ProjectIds,
   storage_credential : Credentials]

\* A variant of the inserted row that does not link the secret.
WarehouseRowUnlinked(warehouse_id, request, secret_id) ==
  [warehouse_id |-> warehouse_id, warehouse_name |-> request.warehouse_name,
   project_id |-> request.project_id, storage_secret_id |-> None,
   status |-> "active"]

WarehouseRow(warehouse_id, request, secret_id) ==
  [warehouse_id |-> warehouse_id, warehouse_name |-> request.warehouse_name,
   project_id |-> request.project_id, storage_secret_id |-> secret_id,
   status |-> "active"]

ExistingWarehouses ==
  {{},
   {WarehouseRow("w3", [warehouse_name |-> "a", project_id |-> "p1"], None)},
   {WarehouseRow("w3", [warehouse_name |-> "a", project_id |-> "p1"], Some("s1"))}}

SecretsOf(rows) == {Unwrap(r.storage_secret_id) : r \in {x \in rows : IsSome(x.storage_secret_id)}}

InitWarehouse ==
  /\ table = {}
  /\ warehouse_status = [w \in Warehouses |-> "active"]
  /\ last = Idle
  /\ tx = NoTx
  /\ warehouse \in ExistingWarehouses
  /\ secrets = SecretsOf(warehouse)
  /\ task = TaskIdle

\* The awaited calls of create_warehouse, in program order.
AwaitPoints ==
  {"check_create_warehouse", "validate", "begin_write", "create_secret",
   "create_warehouse_profile", "commit"}

\* `?` on an Err, or the task dropped: the function is left and the
\* transaction, if begun, is dropped uncommitted.
Leave(step, result) ==
  [task EXCEPT !.pc = "done", !.result = result, !.pending = {},
               !.steps = Append(@, step), !.value = None]

Proceed(step, pc) == [task EXCEPT !.pc = pc, !.steps = Append(@, step)]

Panicked == Err(0, "panic: not yet implemented")

Cancelled == Err(0, "cancelled")

CreateWarehouseCall ==
  /\ task.pc = "idle"
  /\ NewWarehouseIds \ {r.warehouse_id : r \in warehouse} # {}
  /\ SecretIds \ secrets # {}
  /\ \E request \in CreateWarehouseRequests :
       task' = [TaskIdle EXCEPT !.op = "create_warehouse",
                                !.pc = "check_create_warehouse",
                                !.request = request,
                                !.before = [warehouse |-> warehouse,
                                            secrets |-> secrets]]
  /\ UNCHANGED <<table, warehouse_status, last, tx, warehouse, secrets>>

CheckCreateWarehouse ==
  /\ task.pc = "check_create_warehouse"
  /\ \E allowed \in BOOLEAN :
       task' = IF allowed THEN Proceed("check_create_warehouse", "validate")
               ELSE Leave("check_create_warehouse", Err(403, "Forbidden"))
  /\ UNCHANGED <<table, warehouse_status, last, tx, warehouse, secrets>>

ValidateProfile ==
  /\ task.pc = "validate"
  /\ \E valid \in BOOLEAN :
       task' = IF valid THEN Proceed("validate", "begin_write")
               ELSE Leave("validate", Err(400, "InvalidStorageProfile"))
  /\ UNCHANGED <<table, warehouse_status, last, tx, warehouse, secrets>>

BeginWrite ==
  /\ task.pc = "begin_write"
  /\ \E ok \in BOOLEAN :
       task' = IF ~ok THEN Leave("begin_write", Err(500, "BeginTransaction"))
               ELSE IF IsSome(task.request.storage_credential)
                    THEN Proceed("begin_write", "create_secret")
                    ELSE Proceed("begin_write", "create_warehouse_profile")
  /\ UNCHANGED <<table, warehouse_status, last, tx, warehouse, secrets>>

\* S::create_secret is handed the secret store's state, not the transaction.
CreateSecret ==
  /\ task.pc = "create_secret"
  /\ \/ /\ task' = Leave("create_secret", Err(500, "SecretStore"))
        /\ UNCHANGED secrets
     \/ \E id \in SecretIds \ secrets :
          /\ secrets' = secrets \cup {id}
          /\ task' = [Proceed("create_secret", "create_warehouse_profile")
                        EXCEPT !.secret_id = Some(id)]
  /\ UNCHANGED <<table, warehouse_status, last, tx, warehouse>>

WarehouseNameTaken(rows, request) ==
  \E r \in rows : /\ r.project_id = request.project_id
                  /\ r.warehouse_name = request.warehouse_name

CreateWarehouseProfile ==
  /\ task.pc = "create_warehouse_profile"
  /\ IF WarehouseNameTaken(warehouse, task.request)
     THEN task' = Leave("create_warehouse_profile",
                        Err(409, "WarehouseNameAlreadyExists"))
     ELSE \E id \in NewWarehouseIds \ {r.warehouse_id : r \in warehouse} :
            task' = [Proceed("create_warehouse_profile", "commit")
                       EXCEPT !.pending = {WarehouseRow(id, task.request,
                                                        task.secret_id)},
                              !.value = Some(id)]
  /\ UNCHANGED <<table, warehouse_status, last, tx, warehouse, secrets>>

CommitWarehouse ==
  /\ task.pc = "commit"
  /\ \/ /\ task' = Leave("commit", Err(500, "CommitTransaction"))
        /\ UNCHANGED warehouse
     \/ /\ warehouse' = warehouse \cup task.pending
        /\ task' = [Proceed("commit", "done") EXCEPT !.result = Ok, !.pending = {}]
  /\ UNCHANGED <<table, warehouse_status, last, tx, secrets>>

\* The caller drops the task while it waits in one of its calls.
CancelTask ==
  /\ task.pc \in AwaitPoints
  /\ task' = Leave("cancelled", Cancelled)
  /\ UNCHANGED <<table, warehouse_status, last, tx, warehouse, secrets>>

\* deactivate_warehouse, activate_warehouse, update_storage and
\* update_credential: the body is todo!().
Todo(op, request) ==
  /\ task.pc = "idle"
  /\ task' = [TaskIdle EXCEPT !.op = op, !.pc = "done", !.request = request,
                              !.before = [warehouse |-> warehouse,
                                          secrets |-> secrets],
                              !.result = Panicked]
  /\ UNCHANGED <<table, warehouse_status, last, tx, warehouse, secrets>>

DeactivateWarehouse ==
  \E r \in warehouse :
    Todo("deactivate_warehouse", [warehouse_id |-> r.warehouse_id])

ActivateWarehouse ==
  \E r \in warehouse :
    Todo("activate_warehouse", [warehouse_id |-> r.warehouse_id])

UpdateStorage ==
  \E r \in warehouse, credential \in Credentials :
    Todo("update_storage",
         [warehouse_id |-> r.warehouse_id, storage_credential |-> credential])

UpdateCredential ==
  \E r \in warehouse, credential \in Credentials :
    Todo("update_credential",
         [warehouse_id |-> r.warehouse_id, new_storage_credential |-> credential])

TaskRespond ==
  /\ task.pc = "done"
  /\ task' = TaskIdle
  /\ UNCHANGED <<table, warehouse_status, last, tx, warehouse, secrets>>

NextWarehouse ==
  \/ CreateWarehouseCall
  \/ CheckCreateWarehouse
  \/ ValidateProfile
  \/ BeginWrite
  \/ CreateSecret
  \/ CreateWarehouseProfile
  \/ CommitWarehouse
  \/ CancelTask
  \/ DeactivateWarehouse
  \/ ActivateWarehouse
  \/ UpdateStorage
  \/ UpdateCredential
  \/ TaskRespond

SpecWarehouse == InitWarehouse /\ [][NextWarehouse]_vars

(***************************************************************************)
(* SpecPage: the pagination tokens of iceberg-rest-server/src/types.rs.    *)
(* A String is a sequence of characters; what serde hands to and takes     *)
(* from the two types is an Option<String>.  A token is the sequence of    *)
(* its variant name and, for the variants that hold one, its string.       *)
(***************************************************************************)
PageChars == {"n", "u", "l"}

MaxTokenLen == 4

PageStrings == UNION {[1..n -> PageChars] : n \in 0..MaxTokenLen}

OptionStrings == {None} \cup {Some(s) : s \in PageStrings}

Null == <<"n", "u", "l", "l">>

PageToken_deserialize(opt) ==
  IF IsSome(opt) /\ Unwrap(opt) # <<>> THEN <<"Present", Unwrap(opt)>>
  ELSE IF IsSome(opt) THEN <<"Empty">>
       ELSE <<"NotSpecified">>

\* A variant of new_present without the is_empty test.
new_present_unchecked(s) == <<"Present", s>>

new_present(s) == IF s = <<>> THEN <<"Empty">> ELSE <<"Present", s>>

new_finished == <<"Finished">>

new_not_supported == <<"NotSupported">>

\* A variant of new_next_token without the "null" test.
new_next_token_unchecked(s) ==
  IF s = <<>> THEN <<"Finished">> ELSE <<"NextToken", s>>

new_next_token(s) ==
  IF s = <<>> THEN <<"Finished">>
  ELSE IF s = Null THEN <<"NotSupported">>
       ELSE <<"NextToken", s>>

NextPageToken_serialize(token) ==
  IF token[1] = "NextToken" THEN Some(token[2])
  ELSE IF token[1] = "Finished" THEN Some(Null)
       ELSE None

\* The arms of the match in their order: the first takes every non-empty
\* string, "null" included.
NextPageToken_deserialize(opt) ==
  IF IsSome(opt) /\ Unwrap(opt) # <<>> THEN <<"NextToken", Unwrap(opt)>>
  ELSE IF IsSome(opt) /\ Unwrap(opt) = Null THEN <<"NotSupported">>
       ELSE IF IsSome(opt) THEN <<"Finished">>
            ELSE <<"NotSupported">>

\* last.value is the pair of the token and, for a NextPageToken, what it
\* serializes to.
TokenCall(op, input, token, serialized) ==
  /\ last = Idle
  /\ last' = Done(op, input, {}, Ok, <<token, serialized>>)
  /\ UNCHANGED <<table, warehouse_status, tx, warehouse, secrets, task>>

DeserializePageToken ==
  \E opt \in OptionStrings :
    TokenCall("PageToken::deserialize", opt, PageToken_deserialize(opt), None)

NewPresent ==
  \E s \in PageStrings :
    TokenCall("PageToken::new_present", Some(s), new_present(s), None)

NewNextToken ==
  \E s \in PageStrings :
    TokenCall("NextPageToken::new_next_token", Some(s), new_next_token(s),
              NextPageToken_serialize(new_next_token(s)))

NewFinished ==
  TokenCall("NextPageToken::new_finished", None, new_finished,
            NextPageToken_serialize(new_finished))

NewNotSupported ==
  TokenCall("NextPageToken::new_not_supported", None, new_not_supported,
            NextPageToken_serialize(new_not_supported))

DeserializeNextPageToken ==
  \E opt \in OptionStrings :
    TokenCall("NextPageToken::deserialize", opt, NextPageToken_deserialize(opt),
              NextPageToken_serialize(NextPageToken_deserialize(opt)))

NextPage ==
  \/ DeserializePageToken
  \/ DeserializeNextPageToken
  \/ NewPresent
  \/ NewNextToken
  \/ NewFinished
  \/ NewNotSupported
  \/ Respond

SpecPage == Init /\ [][NextPage]_vars

(***************************************************************************)
(* Properties.                                                             *)
(***************************************************************************)
CommitDone == last.op = "commit_table_transaction"

\* C1: a commit_table_transaction that fails, at whichever step (loading the
\* contexts, the requirement check, applying the updates, the bulk UPDATE or
\* its row count), leaves every row of "table" exactly as it was before the
\* call: no change of the request is stored.
C1_FailedCommitChangesNothing ==
  [][(last'.op = "commit_table_transaction" /\ ~last'.result.ok) => table' = table]_vars

\* A two-change commit failed after its UPDATE had run (row count mismatch).
C1_Witness ==
  /\ CommitDone
  /\ last.result = Err(500, "CommitTableUpdateError")
  /\ Len(last.request.table_changes) = 2

\* C2: two concurrent commit_table_transaction calls on overlapping tables
\* are serialized: when both have committed, the stored metadata of every
\* table holds the properties each of them set (the requests of SpecTx only
\* set properties, so every serial order keeps them all).
C2_NoLostUpdate ==
  (\A p \in Procs : tx[p].pc = "committed") =>
     \A p \in Procs : \A i \in DOMAIN tx[p].responses :
        \A r \in table :
           r.table_id = tx[p].responses[i].metadata.uuid =>
             tx[p].responses[i].metadata.properties \subseteq r.metadata.properties

\* The properties that folding updates, in order, over previous leaves.
FoldedProperties(previous, updates) ==
  {k \in PropKeys :
     LET touch == {j \in DOMAIN updates :
                     /\ updates[j].kind \in {"SetProperties", "RemoveProperties"}
                     /\ updates[j].key = k}
     IN IF touch = {} THEN k \in previous
        ELSE updates[CHOOSE j \in touch : \A o \in touch : o <= j].kind = "SetProperties"}

RowIdent(row) == TableIdent(NamespaceOf(row).namespace_name, row.table_name)

\* C3: after a successful commit_table_transaction, for every change of the
\* request, in order: the returned metadata is the loaded metadata with the
\* change's updates folded in order; the row of the named table stores that
\* metadata and the returned metadata location (present, so a staged table
\* is committed now); and load_table on the table's identifier returns both.
C3_CommitStoresReturnedMetadata ==
  (CommitDone /\ last.result.ok) =>
     /\ Len(last.value) = Len(last.request.table_changes)
     /\ \A i \in DOMAIN last.value :
          LET response == last.value[i]
              change == last.request.table_changes[i]
              previous == response.previous_table_metadata
          IN /\ response.metadata =
                  TableMetadata(previous.uuid, previous.location,
                                FoldedProperties(previous.properties, change.updates))
             /\ \E r \in table :
                  /\ r.table_id = last.request.table_ids[Unwrap(change.identifier)]
                  /\ r.metadata = response.metadata
                  /\ r.metadata_location = Some(response.metadata_location)
                  /\ LET loaded == load_table(table, warehouse_status,
                                              WarehouseOf(r), RowIdent(r))
                     IN /\ loaded.result.ok
                        /\ Unwrap(loaded.value).table_metadata = response.metadata
                        /\ Unwrap(loaded.value).metadata_location =
                             Some(response.metadata_location)

\* A commit of two changes succeeded; one of its tables was staged (NotExist
\* held) and its properties changed.
C3_Witness ==
  /\ CommitDone
  /\ last.result.ok
  /\ Len(last.value) = 2
  /\ \E i \in DOMAIN last.value :
       /\ last.request.table_changes[i].requirements = <<NotExist>>
       /\ last.value[i].metadata # last.value[i].previous_table_metadata

\* C4: every row of "table" stores a metadata document whose uuid is the
\* row's table_id and whose location is the row's table_location, whatever
\* create, commit, rename and drop calls have run.
C4_MetadataMatchesRow ==
  \A r \in table :
     /\ r.metadata.uuid = r.table_id
     /\ r.metadata.location = r.table_location

\* A commit succeeded while two tables with different locations exist, one
\* staged and one committed.
C4_Witness ==
  /\ CommitDone
  /\ last.result.ok
  /\ \E r1 \in table, r2 \in table :
       /\ r1.table_location # r2.table_location
       /\ IsStaged(r1)
       /\ ~IsStaged(r2)

CreateDone == last.op = "create_table"

\* The rows the create_table call of last found under its (namespace, name).
CreateConflict ==
  {r \in last.before : /\ r.namespace_id = last.request.namespace_id
                       /\ r.table_name = last.request.name}

\* C5: create_table (with a location) on a (namespace, name) that holds a
\* committed row fails with 409 TableAlreadyExists, staged or not; the
\* relation is unchanged, and load_table on the identifier still returns the
\* stored metadata of that row.
C5_CreateOnCommittedConflicts ==
  (CreateDone /\ last.request.request.location # None) =>
     \A c \in CreateConflict :
        ~IsStaged(c) =>
          /\ last.result = Err(409, "TableAlreadyExists")
          /\ table = last.before
          /\ warehouse_status[WarehouseOf(c)] = "active" =>
               LET loaded == load_table(table, warehouse_status, WarehouseOf(c),
                                        RowIdent(c))
               IN /\ loaded.result.ok
                  /\ Unwrap(loaded.value).table_id = c.table_id
                  /\ Unwrap(loaded.value).table_metadata = c.metadata

\* A non-staged create with another table id and another location was
\* rejected on a committed row of an active warehouse.
C5_Witness ==
  /\ CreateDone
  /\ last.request.metadata_location # None
  /\ last.result = Err(409, "TableAlreadyExists")
  /\ \E c \in CreateConflict :
       /\ ~IsStaged(c)
       /\ c.table_id # last.request.table_id
       /\ last.request.request.location # Some(c.table_location)
       /\ warehouse_status[WarehouseOf(c)] = "active"

\* The row a successful create_table call of last has to leave.
CreatedRow ==
  [table_id |-> last.request.table_id,
   namespace_id |-> last.request.namespace_id,
   table_name |-> last.request.name,
   metadata |-> TableMetadata(last.request.table_id,
                              Unwrap(last.request.request.location), {}),
   metadata_location |-> last.request.metadata_location,
   table_location |-> Unwrap(last.request.request.location)]

\* create_table of last replaced the staged row c by CreatedRow.
Replaced(c) ==
  /\ last.result.ok
  /\ last.value = Some(CreatedRow.metadata)
  /\ table = (last.before \ {c}) \cup {CreatedRow}
  /\ {r \in table : r.namespace_id = c.namespace_id /\ r.table_name = c.table_name}
       = {CreatedRow}
  /\ last.request.metadata_location # None =>
       LET loaded == load_table(table, warehouse_status, WarehouseOf(c), RowIdent(c))
       IN /\ loaded.result.ok
          /\ Unwrap(loaded.value).table_metadata = CreatedRow.metadata

\* create_table of last ran, with a location, on the staged row c of an
\* active warehouse.
CreateOverStaged(c) ==
  /\ CreateDone
  /\ last.request.request.location # None
  /\ c \in CreateConflict
  /\ IsStaged(c)
  /\ warehouse_status[WarehouseOf(c)] = "active"

\* C6 as stated: create_table on a (namespace, name) that holds a staged row
\* succeeds, staged or not, replaces table_id, metadata, metadata_location
\* and table_location, leaves one row for the name, and the old table id
\* identifies no table afterwards.
C6_CreateOverStagedReplaces ==
  \A c \in last.before :
     CreateOverStaged(c) =>
       /\ Replaced(c)
       /\ \A r \in table : r.table_id # c.table_id

\* C6, amended: the create succeeds and replaces the row unless its table id
\* is the id of another row (then it fails and nothing changes); the old
\* table id identifies no table afterwards unless the create passed it again.
C6_CreateOverStagedAmended ==
  \A c \in last.before :
     CreateOverStaged(c) =>
       IF \E o \in last.before \ {c} : o.table_id = last.request.table_id
       THEN ~last.result.ok /\ table = last.before
       ELSE /\ Replaced(c)
            /\ (\A r \in table : r.table_id # c.table_id)
                 <=> last.request.table_id # c.table_id

\* A non-staged create replaced a staged row that had another table id and
\* another location.
C6_Witness ==
  /\ CreateDone
  /\ last.result.ok
  /\ last.request.metadata_location # None
  /\ \E c \in last.before :
       /\ CreateOverStaged(c)
       /\ c.table_id # last.request.table_id
       /\ Some(c.table_location) # last.request.request.location

\* The rows stored in warehouse w under ident, visible or not.
StoredRows(w, ident) ==
  {r \in table : WarehouseOf(r) = w /\ RowIdent(r) = ident}

\* C7: load_table on the identifier of a staged row fails with 404
\* NoSuchTableError; it succeeds only for a row whose metadata_location is
\* present, in an active warehouse, and then returns that row.
C7_LoadTableSkipsStaged ==
  \A w \in Warehouses, ident \in TableIdents :
     LET loaded == load_table(table, warehouse_status, w, ident)
     IN /\ \A r \in StoredRows(w, ident) :
             IsStaged(r) => loaded.result = Err(404, "NoSuchTableError")
        /\ loaded.result.ok =>
             \E r \in StoredRows(w, ident) :
                /\ r.metadata_location # None
                /\ warehouse_status[w] = "active"
                /\ Unwrap(loaded.value).table_id = r.table_id
                /\ Unwrap(loaded.value).table_metadata = r.metadata
                /\ Unwrap(loaded.value).metadata_location = r.metadata_location

\* A staged and a committed table of active warehouses: the first does not
\* load, the second does.
C7_Witness ==
  \E r1 \in table, r2 \in table :
     /\ IsStaged(r1)
     /\ warehouse_status[WarehouseOf(r1)] = "active"
     /\ ~load_table(table, warehouse_status, WarehouseOf(r1), RowIdent(r1)).result.ok
     /\ ~IsStaged(r2)
     /\ load_table(table, warehouse_status, WarehouseOf(r2), RowIdent(r2)).result.ok

\* C8: for a table of an active warehouse, table_ident_to_id with
\* include_staged = false returns Some(table_id) iff the table is committed
\* (None for a staged one); with include_staged = true it returns
\* Some(table_id) either way; for an identifier with no row both return None.
C8_IdentToIdStagedFilter ==
  \A w \in Warehouses, ident \in TableIdents :
     LET committed == table_ident_to_id(table, warehouse_status, w, ident, FALSE)
         any == table_ident_to_id(table, warehouse_status, w, ident, TRUE)
     IN IF StoredRows(w, ident) = {}
        THEN committed = None /\ any = None
        ELSE warehouse_status[w] = "active" =>
               \A r \in StoredRows(w, ident) :
                  /\ any = Some(r.table_id)
                  /\ committed = IF IsStaged(r) THEN None ELSE Some(r.table_id)

\* A staged table, a committed table and an identifier without a row, in
\* active warehouses.
C8_Witness ==
  /\ \E r1 \in table, r2 \in table :
       /\ IsStaged(r1) /\ ~IsStaged(r2)
       /\ warehouse_status[WarehouseOf(r1)] = "active"
       /\ warehouse_status[WarehouseOf(r2)] = "active"
       /\ table_ident_to_id(table, warehouse_status, WarehouseOf(r1), RowIdent(r1),
                            FALSE) = None
  /\ \E w \in Warehouses, ident \in TableIdents :
       warehouse_status[w] = "active" /\ StoredRows(w, ident) = {}

\* C9: a committed row stays committed: no create, commit or rename step
\* leaves the row of its table id staged or removes it; only a successful
\* drop_table of that id removes it.
C9_CommittedStaysCommitted ==
  [][\A r \in table :
        ~IsStaged(r) =>
          \/ \E r2 \in table' : r2.table_id = r.table_id /\ ~IsStaged(r2)
          \/ last'.op = "drop_table" /\ last'.result.ok]_vars

\* A create was rejected while both tables are committed, in active
\* warehouses, and both are still committed.
C9_Witness ==
  /\ CreateDone
  /\ last.result = Err(409, "TableAlreadyExists")
  /\ Cardinality(table) = 2
  /\ \A r \in table : ~IsStaged(r)
  /\ \A w \in Warehouses : warehouse_status[w] = "active"

\* The contexts of the commit of last were loaded: every change names a
\* mapped identifier whose table id is a visible row.
CommitLoaded ==
  \A i \in DOMAIN last.request.table_changes :
     LET change == last.request.table_changes[i]
     IN /\ change.identifier # None
        /\ Unwrap(change.identifier) \in DOMAIN last.request.table_ids
        /\ \E r \in VisibleRows(last.before, warehouse_status) :
              r.table_id = last.request.table_ids[Unwrap(change.identifier)]

\* The row change i of the commit of last was loaded from.
CommitTarget(i) ==
  CHOOSE r \in last.before :
     r.table_id = last.request.table_ids[Unwrap(last.request.table_changes[i].identifier)]

\* The changes that require NotExist of a table that was committed.
NotExistOnCommitted ==
  {i \in DOMAIN last.request.table_changes :
     /\ NotExist \in Range(last.request.table_changes[i].requirements)
     /\ ~IsStaged(CommitTarget(i))}

\* C10: in commit_table_transaction the NotExist requirement holds iff the
\* table was staged when loaded.  It fails with 409
\* RequirementNotExistFailed only for a committed table; and when a change
\* requires NotExist of a committed table, the call fails with a 409
\* requirement error and no row (so no table's properties) changes.
C10_NotExistHoldsIffStaged ==
  (CommitDone /\ CommitLoaded) =>
     /\ last.result = Err(409, "RequirementNotExistFailed") => NotExistOnCommitted # {}
     /\ NotExistOnCommitted # {} =>
          /\ last.result \in {Err(409, "RequirementNotExistFailed"),
                              Err(409, "RequirementUuidMatchFailed")}
          /\ table = last.before
     /\ (/\ NotExistOnCommitted # {}
         /\ \A i \in DOMAIN last.request.table_changes :
               last.request.table_changes[i].requirements \in {<<>>, <<NotExist>>})
          => last.result = Err(409, "RequirementNotExistFailed")

\* A two-change commit whose first change passed NotExist on a staged table
\* was aborted by the second change's NotExist on a committed table.
C10_Witness ==
  /\ CommitDone
  /\ CommitLoaded
  /\ Len(last.request.table_changes) = 2
  /\ last.request.table_changes[1].requirements = <<NotExist>>
  /\ IsStaged(CommitTarget(1))
  /\ NotExistOnCommitted = {2}
  /\ last.result = Err(409, "RequirementNotExistFailed")

\* The updates <<i, j>> of the commit of last that name another uuid or
\* another location than the loaded metadata of their table.
ForeignUpdates ==
  {p \in UNION {{<<i, j>> : j \in DOMAIN last.request.table_changes[i].updates} :
                  i \in DOMAIN last.request.table_changes} :
     LET update == last.request.table_changes[p[1]].updates[p[2]]
         metadata == CommitTarget(p[1]).metadata
     IN \/ update.kind = "AssignUuid" /\ update.uuid # metadata.uuid
        \/ update.kind = "SetLocation" /\ update.location # metadata.location}

\* The first of them in the order the updates are applied.
FirstForeignUpdate ==
  CHOOSE p \in ForeignUpdates :
     \A q \in ForeignUpdates : p[1] < q[1] \/ (p[1] = q[1] /\ p[2] <= q[2])

\* C11: a commit never changes a table's uuid or location.  When the
\* contexts load and the requirements hold, the first AssignUuid with
\* another uuid or SetLocation with another location aborts the call with
\* 400 AssignUuidNotAllowed / SetLocationNotAllowed and no row changes; the
\* two errors arise only so; and a commit that succeeds (its AssignUuid and
\* SetLocation updates carry the current values) leaves table_id, uuid,
\* location and table_location of every row as they were.
C11_UuidAndLocationImmutable ==
  (CommitDone /\ CommitLoaded) =>
     /\ last.result.type \in {"AssignUuidNotAllowed", "SetLocationNotAllowed"}
          => ForeignUpdates # {}
     /\ (ForeignUpdates # {} /\ last.result.code # 409) =>
          LET update == last.request.table_changes[FirstForeignUpdate[1]]
                          .updates[FirstForeignUpdate[2]]
          IN /\ last.result = IF update.kind = "AssignUuid"
                              THEN Err(400, "AssignUuidNotAllowed")
                              ELSE Err(400, "SetLocationNotAllowed")
             /\ table = last.before
     /\ last.result.ok =>
          /\ ForeignUpdates = {}
          /\ \A r \in last.before :
                \E r2 \in table :
                   /\ r2.table_id = r.table_id
                   /\ r2.metadata.uuid = r.metadata.uuid
                   /\ r2.metadata.location = r.metadata.location
                   /\ r2.table_location = r.table_location

\* A change whose SetProperties was followed by a SetLocation to another
\* location was rejected.
C11_Witness ==
  /\ CommitDone
  /\ CommitLoaded
  /\ last.result = Err(400, "SetLocationNotAllowed")
  /\ Len(last.request.table_changes[1].updates) = 2
  /\ last.request.table_changes[1].updates[1].kind = "SetProperties"

RenameDone == last.op = "rename_table"

\* The call of last renamed the table that its source identifier named in
\* its warehouse when it was called.
RenameOfSource ==
  table_ident_to_id(last.before, warehouse_status, last.request.warehouse_id,
                    last.request.source, TRUE) = Some(last.request.source_id)

\* C12: after a successful rename_table of the table at source to another
\* identifier destination (same namespace or another namespace of the
\* warehouse), source resolves to None and destination resolves to the
\* table's id (with include_staged = false too if the table is committed);
\* the row has changed in name and namespace only.
C12_RenameKeepsTableId ==
  (/\ RenameDone
   /\ last.result.ok
   /\ RenameOfSource
   /\ last.request.source # last.request.destination) =>
     LET w == last.request.warehouse_id
         old == CHOOSE r \in last.before : r.table_id = last.request.source_id
     IN /\ table_ident_to_id(table, warehouse_status, w, last.request.source, TRUE)
             = None
        /\ table_ident_to_id(table, warehouse_status, w, last.request.destination, TRUE)
             = Some(last.request.source_id)
        /\ table_ident_to_id(table, warehouse_status, w, last.request.destination, FALSE)
             = IF IsStaged(old) THEN None ELSE Some(last.request.source_id)
        /\ \E d \in NamespaceIds :
              table = (last.before \ {old}) \cup
                      {[old EXCEPT !.table_name = last.request.destination.name,
                                   !.namespace_id = d]}

\* A committed table was moved to another namespace, next to a second table.
C12_Witness ==
  /\ RenameDone
  /\ last.result.ok
  /\ RenameOfSource
  /\ last.request.source.namespace # last.request.destination.namespace
  /\ Cardinality(table) = 2
  /\ \E r \in table : r.table_id = last.request.source_id /\ ~IsStaged(r)


(***************************************************************************)
(* C13: a rename into another namespace is atomic for readers.  While a    *)
(* transaction renames the table that its source identifier named, and no  *)
(* other transaction renames the same table, the committed rows resolve    *)
(* the table under exactly one of the source and the destination           *)
(* identifier: under the source until the transaction commits, under the   *)
(* destination once it has; load_table of a committed table succeeds for   *)
(* exactly the identifier that resolves.                                   *)
(***************************************************************************)
RenameInFlight(p) ==
  /\ tx[p].pc # "idle"
  /\ tx[p].request.source.namespace # tx[p].request.destination.namespace
  /\ \A q \in Procs \ {p} :
       tx[q].pc = "idle" \/ tx[q].request.source_id # tx[p].request.source_id

ResolvesTo(ident, table_id) ==
  table_ident_to_id(table, warehouse_status, RenameWarehouse, ident, TRUE)
    = Some(table_id)

LoadsAs(ident, table_id) ==
  LET l == load_table(table, warehouse_status, RenameWarehouse, ident)
  IN l.result.ok /\ Unwrap(l.value).table_id = table_id

C13_RenameAtomicForReaders ==
  \A p \in Procs :
    RenameInFlight(p) =>
      LET rq == tx[p].request
          old == ResolvesTo(rq.source, rq.source_id)
          new == ResolvesTo(rq.destination, rq.source_id)
          row == CHOOSE r \in table : r.table_id = rq.source_id
      IN /\ old # new
         /\ tx[p].pc \in {"begun", "updated", "failed", "rolled_back"} => old
         /\ tx[p].pc = "committed" => new
         /\ ~IsStaged(row) =>
              /\ LoadsAs(rq.source, rq.source_id) = old
              /\ LoadsAs(rq.destination, rq.source_id) = new

\* A reader resolved the source identifier of a table while the rename's
\* UPDATE had run and its transaction had not committed.
C13_Witness ==
  \E p \in Procs :
    /\ RenameInFlight(p)
    /\ tx[p].pc = "updated"
    /\ tx[p].request.source.name # tx[p].request.destination.name
    /\ last.op = "table_ident_to_id"
    /\ last.request.ident = tx[p].request.source
    /\ last.value = Some(tx[p].request.source_id)

(***************************************************************************)
(* C14: a rename into another namespace fails with 404                     *)
(* RenameTableIdOrNamespaceNotFound, and changes no row, when the          *)
(* destination namespace does not exist in the warehouse or when no row    *)
(* has the source table_id and the source table_name.                      *)
(***************************************************************************)
RenameMoves ==
  RenameDone /\ last.request.source.namespace # last.request.destination.namespace

DestinationMissing ==
  DestinationNamespace(last.request.warehouse_id,
                       last.request.destination.namespace) = {}

SourceRowMissing ==
  ~\E r \in last.before : /\ r.table_id = last.request.source_id
                          /\ r.table_name = last.request.source.name

C14_MissingNamespaceOrSourceNotFound ==
  (RenameMoves /\ (DestinationMissing \/ SourceRowMissing)) =>
     /\ last.result = Err(404, "RenameTableIdOrNamespaceNotFound")
     /\ table = last.before

(***************************************************************************)
(* C15: get_table_metadata_by_s3_location returns a table exactly when its *)
(* table_location is a literal prefix of the path (the path itself         *)
(* included) in the active warehouse of the call: with no such table the   *)
(* call fails with 404; a table it returns is such a table; and with such  *)
(* a table (committed, or staged and include_staged) the call succeeds.    *)
(***************************************************************************)
LiteralPrefix(prefix, s) ==
  Len(prefix) <= Len(s) /\ SubSeq(s, 1, Len(prefix)) = prefix

LocationDone == last.op = "get_table_metadata_by_s3_location"

PrefixTables ==
  {r \in VisibleRows(last.before, warehouse_status) :
     /\ WarehouseOf(r) = last.request.warehouse_id
     /\ LiteralPrefix(r.table_location, last.request.location)}

C15_LocationLookupIsLiteralPrefix ==
  LocationDone =>
    /\ PrefixTables = {} => ~last.result.ok /\ last.result.code = 404
    /\ last.result.ok => \E r \in PrefixTables : Unwrap(last.value).table_id = r.table_id
    /\ (\E r \in PrefixTables : last.request.include_staged \/ ~IsStaged(r))
       /\ (\A r \in PrefixTables : last.request.include_staged \/ ~IsStaged(r))
         => last.result.ok

(***************************************************************************)
(* C16: in every reachable state no two rows of one warehouse have table   *)
(* locations of which one is a prefix of, or equal to, the other.          *)
(***************************************************************************)
C16_NoLocationIsPrefixOfAnother ==
  \A r1 \in table, r2 \in table :
    (r1 # r2 /\ WarehouseOf(r1) = WarehouseOf(r2)) =>
       ~LiteralPrefix(r1.table_location, r2.table_location)

(***************************************************************************)
(* C17: (namespace_id, table_name) is unique among the rows in every       *)
(* reachable state.  A create_table leaves one row for every name that was *)
(* held and adds at most one row; a rename_table that succeeds wrote a     *)
(* name no other row held, and one that fails changes no row.              *)
(***************************************************************************)
UniqueNames(tbl) ==
  \A r1 \in tbl, r2 \in tbl :
    (r1.namespace_id = r2.namespace_id /\ r1.table_name = r2.table_name) => r1 = r2

RenameWroteFreeName ==
  \E r \in table, renamed \in table' \cup table :
     /\ table' = (table \ {r}) \cup {renamed}
     /\ renamed.table_id = r.table_id
     /\ NameKeys({renamed}) \cap NameKeys(table \ {r}) = {}

C17_Step ==
  /\ UniqueNames(table')
  /\ (last = Idle /\ last'.op = "create_table") =>
        /\ NameKeys(table) \subseteq NameKeys(table')
        /\ Cardinality(table' \ table) <= 1
        /\ ~last'.result.ok => table' = table
  /\ (last = Idle /\ last'.op = "rename_table") =>
        IF last'.result.ok THEN RenameWroteFreeName ELSE table' = table

C17_TableNameUnique == [][C17_Step]_vars

\* A rename failed on the constraint while two tables of one namespace existed.
C17_Witness ==
  /\ last.op = "rename_table"
  /\ last.result = Err(500, "ErrorRenamingTable")
  /\ \E r1 \in table, r2 \in table :
       r1 # r2 /\ r1.namespace_id = r2.namespace_id

(***************************************************************************)
(* C18: a table whose warehouse is inactive is out of reach of every       *)
(* operation.  table_ident_to_id, table_idents_to_ids and list_tables do   *)
(* not return it; load_table, get_table_metadata_by_id and                 *)
(* get_table_metadata_by_s3_location do not return it and fail with 404 in *)
(* an inactive warehouse or for its table_id; create_table into a          *)
(* namespace of an inactive warehouse, and rename_table, drop_table and    *)
(* commit_table_transaction on its table_id, fail and change no row.       *)
(***************************************************************************)
InactiveIds ==
  {r.table_id : r \in {x \in last.before : warehouse_status[WarehouseOf(x)] = "inactive"}}

InactiveCall == warehouse_status[last.request.warehouse_id] = "inactive"

FailedUnchanged == ~last.result.ok /\ table = last.before

NotFound == ~last.result.ok /\ last.result.code = 404

C18_InactiveWarehouseGate ==
  /\ last.op = "table_ident_to_id" =>
       last.value \notin {Some(i) : i \in InactiveIds}
  /\ last.op = "table_idents_to_ids" =>
       \A i \in DOMAIN Unwrap(last.value) :
          Unwrap(last.value)[i] \notin {Some(x) : x \in InactiveIds}
  /\ last.op = "list_tables" =>
       \A pair \in Unwrap(last.value) : pair[1] \notin InactiveIds
  /\ last.op \in {"load_table", "get_table_metadata_by_id",
                  "get_table_metadata_by_s3_location"} =>
       /\ last.result.ok => Unwrap(last.value).table_id \notin InactiveIds
       /\ InactiveCall => NotFound
  /\ last.op = "get_table_metadata_by_id" =>
       (last.request.table_id \in InactiveIds => NotFound)
  /\ last.op = "create_table" =>
       ((\E n \in Namespace : /\ n.namespace_id = last.request.namespace_id
                              /\ warehouse_status[n.warehouse_id] = "inactive")
          => FailedUnchanged)
  /\ last.op = "rename_table" =>
       (last.request.source_id \in InactiveIds => FailedUnchanged)
  /\ last.op = "drop_table" =>
       (last.request.table_id \in InactiveIds => FailedUnchanged)
  /\ last.op = "commit_table_transaction" =>
       ((\E i \in DOMAIN last.request.table_ids :
            last.request.table_ids[i] \in InactiveIds) => FailedUnchanged)

(***************************************************************************)
(* C19: create_table (with a location) into a namespace whose warehouse is *)
(* not active, or with a namespace_id of no namespace, inserts no row and  *)
(* fails with 409 TableAlreadyExists.                                      *)
(***************************************************************************)
CreateGated ==
  /\ CreateDone
  /\ last.request.request.location # None
  /\ ~\E n \in Namespace : /\ n.namespace_id = last.request.namespace_id
                           /\ warehouse_status[n.warehouse_id] = "active"

C19_CreateInInactiveWarehouseConflicts ==
  CreateGated => /\ last.result = Err(409, "TableAlreadyExists")
                 /\ table = last.before

\* The namespace of an inactive warehouse held no table of that name, and the
\* table_id was not in use.
C19_Witness ==
  /\ CreateGated
  /\ last.request.namespace_id \in NamespaceIds
  /\ CreateConflict = {}
  /\ \A r \in last.before : r.table_id # last.request.table_id
  /\ last.result = Err(409, "TableAlreadyExists")

(***************************************************************************)
(* C20: two create_table transactions on one (namespace, name).  The name  *)
(* never has two rows, and has exactly one once a create has committed.    *)
(* A create whose INSERT found a committed row of the name fails with 409  *)
(* TableAlreadyExists and the row stays; one that found a staged row, or   *)
(* none, succeeds, and when it commits the row of the name is the row of   *)
(* that create in all its columns.                                         *)
(***************************************************************************)
RowsOfRequest(tbl, rq) ==
  {r \in tbl : r.namespace_id = rq.namespace_id /\ r.table_name = rq.name}

\* The row a create writes when nothing is in its way.
RowOfCreate(rq) ==
  CHOOSE r \in create_table({}, warehouse_status, rq.namespace_id,
                            TableIdent(NameOfNamespace(rq.namespace_id), rq.name),
                            rq.table_id, rq.request, rq.metadata_location).table : TRUE

Inserted(p) == tx[p].pc \in {"updated", "failed", "committed", "rolled_back"}

C20_Step ==
  /\ UniqueNames(table')
  /\ \A p \in Procs :
       /\ tx'[p].pc = "committed" =>
            Cardinality(RowsOfRequest(table', tx'[p].request)) = 1
       /\ (tx[p].pc = "begun" /\ Inserted(p)') =>
            LET found == RowsOfRequest(table, tx'[p].request)
            IN IF \E r \in found : ~IsStaged(r)
               THEN tx'[p].result = Err(409, "TableAlreadyExists")
               ELSE tx'[p].result = Ok
       /\ (tx[p].pc = "failed" \/ tx'[p].pc = "failed") => table' = table
       /\ (tx[p].pc = "updated" /\ tx'[p].pc = "committed") =>
            /\ RowsOfRequest(table', tx'[p].request) = {RowOfCreate(tx'[p].request)}
            /\ \A r \in table' : r \in table \/ r = RowOfCreate(tx'[p].request)

C20_RacingCreatesLeaveOneRow == [][C20_Step]_vars

\* Both creates named the same table; the INSERT of the second found the
\* staged row the first had committed, and its commit has replaced that row.
C20_Witness ==
  /\ tx["p1"].pc = "committed" /\ tx["p2"].pc = "committed"
  /\ tx["p1"].request.name = tx["p2"].request.name
  /\ tx["p2"].before # {}
  /\ \A r \in tx["p2"].before : IsStaged(r)
  /\ table = {RowOfCreate(tx["p2"].request)}
  /\ tx["p2"].request.request.location # tx["p1"].request.request.location

(***************************************************************************)
(* C21: commits on disjoint tables do not interact.  When two concurrent   *)
(* commit transactions that name disjoint sets of tables have both         *)
(* committed, in whatever order their statements ran, the metadata of      *)
(* every table is its metadata before with the updates of the change that  *)
(* names it folded in, and unchanged when no change names it.  (Every      *)
(* table of SpecTx starts with no properties.)                             *)
(***************************************************************************)
NamedIdents(p) ==
  {Unwrap(tx[p].table_changes[i].identifier) : i \in DOMAIN tx[p].table_changes}

UpdatesNaming(row) ==
  UNION {{tx[p].table_changes[i].updates :
            i \in {j \in DOMAIN tx[p].table_changes :
                     Unwrap(tx[p].table_changes[j].identifier) = RowIdent(row)}} :
         p \in Procs}

DisjointCommitted ==
  /\ \A p \in Procs : tx[p].pc = "committed"
  /\ NamedIdents("p1") \cap NamedIdents("p2") = {}

C21_DisjointCommitsIndependent ==
  DisjointCommitted =>
    \A r \in table :
       /\ r.metadata.uuid = r.table_id
       /\ r.metadata.location = r.table_location
       /\ r.metadata.properties =
            UNION {FoldedProperties({}, u) : u \in UpdatesNaming(r)}
       /\ (UpdatesNaming(r) # {}) => r.metadata_location # None

\* Both transactions have committed one change each, on different staged
\* tables and with different keys.
C21_Witness ==
  /\ DisjointCommitted
  /\ \A p \in Procs : Len(tx[p].table_changes) = 1 /\ Len(tx[p].contexts) = 1
  /\ \A p \in Procs : tx[p].contexts[1].metadata_location = None
  /\ \A r \in table : Cardinality(r.metadata.properties) = 1
  /\ \E r1 \in table, r2 \in table : r1.metadata.properties # r2.metadata.properties

(***************************************************************************)
(* C22: table_idents_to_ids returns a map whose keys are exactly the       *)
(* identifiers asked for (none for an empty request); each is mapped to    *)
(* absent or to the table_id of a row of the warehouse stored under that   *)
(* identifier.                                                             *)
(***************************************************************************)
IdentsToIdsDone == last.op = "table_idents_to_ids"

C22_IdentsToIdsKeysAreRequested ==
  IdentsToIdsDone =>
    LET map == Unwrap(last.value)
    IN /\ last.result.ok
       /\ DOMAIN map = last.request.tables
       /\ \A i \in DOMAIN map :
            \/ map[i] = None
            \/ \E r \in last.before : /\ map[i] = Some(r.table_id)
                                      /\ RowIdent(r) = i
                                      /\ WarehouseOf(r) = last.request.warehouse_id

\* Three identifiers were asked for: one of a committed table, one of a staged
\* table (include_staged false) and one of no table.
C22_Witness ==
  /\ IdentsToIdsDone
  /\ ~last.request.include_staged
  /\ Cardinality(last.request.tables) = 3
  /\ \E i \in last.request.tables : Unwrap(last.value)[i] # None
  /\ \E i \in last.request.tables :
       \E r \in last.before : /\ RowIdent(r) = i /\ IsStaged(r)
                              /\ WarehouseOf(r) = last.request.warehouse_id
                              /\ warehouse_status[WarehouseOf(r)] = "active"
  /\ \E i \in last.request.tables : ~\E r \in last.before : RowIdent(r) = i

(***************************************************************************)
(* C23: table_idents_to_ids refuses a batch of more than                   *)
(* MAX_PARAMETERS / 2 identifiers with 400 TooManyTables before any query, *)
(* and goes on to the query for every non-empty batch of at most           *)
(* MAX_PARAMETERS / 2 identifiers, the boundary size included.             *)
(***************************************************************************)
C23_BatchLimit ==
  IdentsToIdsDone =>
    LET n == last.request.size
        queried == Unwrap(last.value)
    IN /\ n > MAX_PARAMETERS \div 2 =>
            last.result = Err(400, "TooManyTables") /\ ~queried
       /\ n <= MAX_PARAMETERS \div 2 => last.result.ok
       /\ (0 < n /\ n <= MAX_PARAMETERS \div 2) => queried

\* The boundary size was accepted.
C23_Witness ==
  /\ IdentsToIdsDone
  /\ 2 * last.request.size = MAX_PARAMETERS
  /\ last.result.ok /\ Unwrap(last.value)

(***************************************************************************)
(* C24: list_tables(warehouse, namespace, include_staged) returns exactly  *)
(* the pairs (table_id, identifier) of that namespace for which            *)
(* table_ident_to_id, asked with the same warehouse and flag, resolves the *)
(* identifier to the table_id.  Of the tables the namespace has in an      *)
(* active warehouse, the listing with the flag off holds every committed   *)
(* and no staged one, the listing with the flag on holds all; every pair   *)
(* carries the identifier of the row with that table_id.                   *)
(***************************************************************************)
ListTablesDone == last.op = "list_tables"

RowsOfListedNamespace ==
  {r \in VisibleRows(last.before, warehouse_status) :
     /\ WarehouseOf(r) = last.request.warehouse_id
     /\ NamespaceOf(r).namespace_name = last.request.namespace}

C24_ListTablesMatchesResolution ==
  ListTablesDone =>
    LET listed == Unwrap(last.value)
        req == last.request
    IN /\ \A id \in TableIds, name \in TableNames :
            <<id, TableIdent(req.namespace, name)>> \in listed
              <=> table_ident_to_id(last.before, warehouse_status, req.warehouse_id,
                                    TableIdent(req.namespace, name),
                                    req.include_staged) = Some(id)
       /\ \A e \in listed :
            /\ e[2].namespace = req.namespace
            /\ \E r \in RowsOfListedNamespace :
                 r.table_id = e[1] /\ r.table_name = e[2].name
       /\ \A r \in RowsOfListedNamespace :
            (\E e \in listed : e[1] = r.table_id)
              <=> (~IsStaged(r) \/ req.include_staged)

\* A namespace holding a staged and a committed table was listed with the
\* flag off.
C24_Witness ==
  /\ ListTablesDone
  /\ ~last.request.include_staged
  /\ \E r \in RowsOfListedNamespace : IsStaged(r)
  /\ \E r \in RowsOfListedNamespace : ~IsStaged(r)
  /\ Cardinality(Unwrap(last.value)) = 1

(***************************************************************************)
(* C25: create_warehouse is all-or-nothing.  When it has failed or was     *)
(* cancelled, at whichever step, the warehouse relation holds no row and   *)
(* the secret store no secret that was not there before the request.       *)
(***************************************************************************)
CreateWarehouseDone == task.op = "create_warehouse" /\ task.pc = "done"

C25_CreateWarehouseAllOrNothing ==
  (CreateWarehouseDone /\ ~task.result.ok) =>
    /\ warehouse = task.before.warehouse
    /\ secrets = task.before.secrets

(***************************************************************************)
(* C26: a successful create_warehouse has run, in this order, the profile  *)
(* validation, one begin of a write transaction, the secret creation       *)
(* exactly when a credential was given, the warehouse row insert and one   *)
(* commit.  It has added exactly one warehouse row, whose secret handle is *)
(* the handle the secret store returned when a credential was given and    *)
(* is absent otherwise, and at most one secret.                            *)
(***************************************************************************)
StepsOfCreate(with_credential) ==
  IF with_credential
  THEN <<"check_create_warehouse", "validate", "begin_write", "create_secret",
         "create_warehouse_profile", "commit">>
  ELSE <<"check_create_warehouse", "validate", "begin_write",
         "create_warehouse_profile", "commit">>

C26_CreateWarehouseSteps ==
  (CreateWarehouseDone /\ task.result.ok) =>
    LET given == IsSome(task.request.storage_credential)
        rows == warehouse \ task.before.warehouse
        created == secrets \ task.before.secrets
    IN /\ task.steps = StepsOfCreate(given)
       /\ Cardinality(rows) = 1
       /\ \A r \in rows :
            /\ r.warehouse_id = Unwrap(task.value)
            /\ r.warehouse_name = task.request.warehouse_name
            /\ r.project_id = task.request.project_id
            /\ r.status = "active"
            /\ IF given
               THEN IsSome(r.storage_secret_id)
                    /\ created = {Unwrap(r.storage_secret_id)}
               ELSE r.storage_secret_id = None /\ created = {}
       /\ task.before.warehouse \subseteq warehouse
       /\ task.before.secrets \subseteq secrets

\* A warehouse was created with a credential.
C26_Witness ==
  /\ CreateWarehouseDone
  /\ task.result.ok
  /\ IsSome(task.request.storage_credential)
  /\ \E r \in warehouse \ task.before.warehouse : IsSome(r.storage_secret_id)

(***************************************************************************)
(* C27: update_credential, update_storage, activate_warehouse and          *)
(* deactivate_warehouse return a result instead of aborting the task, and  *)
(* update_credential with an absent credential completes with the          *)
(* warehouse's secret handle cleared and the old secret deleted.           *)
(***************************************************************************)
UnimplementedOps ==
  {"update_credential", "update_storage", "activate_warehouse",
   "deactivate_warehouse"}

C27_UpdateOperationsReturn ==
  (task.op \in UnimplementedOps /\ task.pc = "done") =>
    /\ task.result # Panicked
    /\ (task.op = "update_credential"
        /\ task.request.new_storage_credential = None) =>
         /\ task.result.ok
         /\ \A r \in warehouse :
              r.warehouse_id = task.request.warehouse_id =>
                r.storage_secret_id = None
         /\ \A r \in task.before.warehouse :
              (r.warehouse_id = task.request.warehouse_id
               /\ IsSome(r.storage_secret_id)) =>
                Unwrap(r.storage_secret_id) \notin secrets

(***************************************************************************)
(* C28: a create_table, rename_table, drop_table or                        *)
(* commit_table_transaction request that succeeded and is executed again   *)
(* at once, its requirements still satisfied, leaves every row of the      *)
(* table relation as the first execution left it.                          *)
(***************************************************************************)
RetryDone == last.op = "retry"

\* The retry was not turned down by a requirement of the request.
RequirementsStillHold ==
  last.request.op = "commit_table_transaction" => last.result.ok

C28_RetryIsIdempotent ==
  (RetryDone /\ RequirementsStillHold) => table = last.before

(***************************************************************************)
(* C29: deserializing a PageToken has three outcomes: a missing key gives  *)
(* NotSpecified, an empty value Empty, a non-empty value s Present(s).     *)
(* PageToken::new_present gives what deserializing the same string gives,  *)
(* so Empty for the empty string, and no Present holds the empty string.   *)
(***************************************************************************)
PageTokenMade ==
  last.op \in {"PageToken::deserialize", "PageToken::new_present"}

C29_PageTokenOutcomes ==
  PageTokenMade =>
    LET opt == last.request
        token == last.value[1]
    IN /\ opt = None => token = <<"NotSpecified">>
       /\ opt = Some(<<>>) => token = <<"Empty">>
       /\ (IsSome(opt) /\ Unwrap(opt) # <<>>) => token = <<"Present", Unwrap(opt)>>
       /\ token[1] = "Present" => token[2] # <<>>
       /\ token = PageToken_deserialize(opt)

\* new_present was given the empty string.
C29_Witness ==
  /\ last.op = "PageToken::new_present"
  /\ last.request = Some(<<>>)
  /\ last.value[1] = <<"Empty">>

(***************************************************************************)
(* C30: a NextPageToken serializes as the string "null" when Finished, as  *)
(* none when NotSupported and as s when NextToken(s); for the tokens that  *)
(* new_next_token, new_finished and new_not_supported produce, tokens of   *)
(* different states have different serialized forms.                       *)
(***************************************************************************)
NextPageTokenMade ==
  last.op \in {"NextPageToken::new_next_token", "NextPageToken::new_finished",
               "NextPageToken::new_not_supported"}

ProducedTokens ==
  {new_next_token(s) : s \in PageStrings} \cup {new_finished, new_not_supported}

C30_NextPageTokenForms ==
  NextPageTokenMade =>
    LET token == last.value[1]
        form == last.value[2]
    IN /\ token[1] = "Finished" => form = Some(Null)
       /\ token[1] = "NotSupported" => form = None
       /\ token[1] = "NextToken" => form = Some(token[2])
       /\ \A other \in ProducedTokens :
            other[1] # token[1] => NextPageToken_serialize(other) # form

\* new_next_token was given "null".
C30_Witness ==
  /\ last.op = "NextPageToken::new_next_token"
  /\ last.request = Some(Null)
  /\ last.value[1] = <<"NotSupported">>
  /\ last.value[2] = None

(***************************************************************************)
(* C31: the bound on the number of changes is the first step of            *)
(* commit_table_transaction.  A transaction of more than                   *)
(* MAX_PARAMETERS / 4 changes fails with 400 TooManyTablesForCommit,       *)
(* whether or not a change of it lacks an identifier or names a table that *)
(* does not exist, and one of exactly MAX_PARAMETERS / 4 changes is not    *)
(* turned down by the bound.                                               *)
(***************************************************************************)
CommitSizeChecked == last.op = "commit_table_transaction"

C31_CommitBoundFirst ==
  CommitSizeChecked =>
    /\ last.request.size > MAX_PARAMETERS \div 4 =>
         last.result = Err(400, "TooManyTablesForCommit")
    /\ last.request.size <= MAX_PARAMETERS \div 4 =>
         last.result # Err(400, "TooManyTablesForCommit")

(***************************************************************************)
(* C32: commit_table_transaction succeeds only if its bulk UPDATE changed  *)
(* exactly one row per change.  Whenever the UPDATE is reached and the     *)
(* number of rows it changed differs from the number of changes (a table   *)
(* dropped since it was loaded, one table named by two changes) the call   *)
(* fails with 500 CommitTableUpdateError, and the failed transaction       *)
(* changes no table; so of two changes for one table none is dropped       *)
(* silently.                                                               *)
(***************************************************************************)
ReachesUpdate(contexts) ==
  /\ CheckRequirements(contexts).ok
  /\ apply_commits(contexts, [i \in DOMAIN contexts |-> 1]).result.ok

OneRowPerChange(t) ==
  /\ Cardinality(t.written) = Len(t.table_changes)
  /\ \A i \in DOMAIN t.table_changes :
       \E r \in t.written :
         r.table_id = t.table_ids[Unwrap(t.table_changes[i].identifier)]

C32_Step ==
  \A p \in Procs :
    /\ (tx[p].pc = "loaded" /\ tx'[p].pc = "updated") =>
         /\ tx'[p].result.ok
         /\ OneRowPerChange(tx'[p])
    /\ (tx[p].pc = "loaded" /\ tx'[p].pc = "failed"
        /\ ReachesUpdate(tx[p].contexts)) =>
         /\ tx'[p].result = Err(500, "CommitTableUpdateError")
         /\ Cardinality(tx'[p].written) # Len(tx[p].table_changes)
    /\ (tx[p].pc = "failed" /\ tx'[p].pc # "failed") => table' = table
    /\ (tx[p].pc = "updated" /\ tx'[p].pc = "committed") =>
         \A w \in tx[p].written : w \in table'

C32_UpdatedRowCountChecked == [][C32_Step]_vars

\* A commit failed because its table was dropped after it was loaded.
C32_Witness ==
  \E p \in Procs :
    /\ tx[p].pc = "rolled_back"
    /\ tx[p].result = Err(500, "CommitTableUpdateError")
    /\ Len(tx[p].table_changes) = 1
    /\ tx[p].contexts # <<>>

(***************************************************************************)
(* C33: when the first change of a commit that cannot be loaded has no     *)
(* identifier, the commit fails with 400 TableIdentifierRequired; when its *)
(* identifier does not denote an existing table of an active warehouse     *)
(* (it is not in the resolved identifier map, or its UUID has no row) the  *)
(* commit fails with 404 NoSuchTableError.  In both cases no table is      *)
(* changed.                                                                *)
(***************************************************************************)
CommitCalled == last.op = "commit_table_transaction" /\ last.before # {}

Denotes(change) ==
  /\ IsSome(change.identifier)
  /\ Unwrap(change.identifier) \in DOMAIN last.request.table_ids
  /\ \E r \in VisibleRows(last.before, warehouse_status) :
       r.table_id = last.request.table_ids[Unwrap(change.identifier)]

C33_LoadErrors ==
  CommitCalled =>
    LET changes == last.request.table_changes
    IN \A i \in DOMAIN changes :
         (/\ ~Denotes(changes[i])
          /\ \A j \in DOMAIN changes : j < i => Denotes(changes[j])) =>
           /\ table = last.before
           /\ last.result = IF changes[i].identifier = None
                            THEN Err(400, "TableIdentifierRequired")
                            ELSE Err(404, "NoSuchTableError")

(***************************************************************************)
(* C34: a successful commit_table_transaction returns one response per     *)
(* change, in the order of the changes; the previous_table_metadata of     *)
(* each response is the metadata stored for that table immediately before  *)
(* the commit, its storage profile and secret handle are those of the      *)
(* table's warehouse.  Stated of a transaction whose UPDATE has succeeded  *)
(* and which holds the locks of its rows until it commits.                 *)
(***************************************************************************)
StoredRow(table_id) == CHOOSE r \in table : r.table_id = table_id

ResponsesOfStored(t) ==
  /\ Len(t.responses) = Len(t.table_changes)
  /\ \A i \in DOMAIN t.table_changes :
       LET table_id == t.table_ids[Unwrap(t.table_changes[i].identifier)]
           response == t.responses[i]
       IN /\ response.metadata.uuid = table_id
          /\ \E r \in table : r.table_id = table_id
          /\ response.previous_table_metadata = StoredRow(table_id).metadata
          /\ response.storage_profile =
               StorageProfileOf(WarehouseOf(StoredRow(table_id)))
          /\ response.storage_secret_ident =
               StorageSecretOf(WarehouseOf(StoredRow(table_id)))

C34_ResponsesCarryPreviousMetadata ==
  \A p \in Procs : tx[p].pc = "updated" => ResponsesOfStored(tx[p])

(***************************************************************************)
(* C35: drop_table of a table of an active warehouse removes that row and  *)
(* no other; afterwards the table's identifier resolves to absent even     *)
(* with include_staged, and a create_table on the same namespace and name  *)
(* with an unused table_id and a location succeeds.  drop_table of a       *)
(* table_id that no row has fails with 404 NoSuchTableError and changes    *)
(* nothing.                                                                *)
(***************************************************************************)
DropDone == last.op = "drop_table"

DroppedRows == {r \in last.before : r.table_id = last.request.table_id}

CreateAgainSucceeds(row) ==
  \A table_id \in TableIds \ RowIds(table), request \in CreateRequests :
    request.location # None =>
      \A metadata_location \in CreateMetadataLocations(row.namespace_id, request) :
        create_table(table, warehouse_status, row.namespace_id, RowIdent(row),
                     table_id, request, metadata_location).result.ok

C35_DropRemovesExactlyOneRow ==
  DropDone =>
    /\ DroppedRows = {} =>
         last.result = Err(404, "NoSuchTableError") /\ table = last.before
    /\ \A r \in DroppedRows :
         warehouse_status[WarehouseOf(r)] = "active" =>
           /\ last.result.ok
           /\ table = last.before \ {r}
           /\ table_ident_to_id(table, warehouse_status, WarehouseOf(r),
                                RowIdent(r), TRUE) = None
           /\ CreateAgainSucceeds(r)

\* One of two tables of a namespace was dropped.
C35_Witness ==
  /\ DropDone
  /\ last.result.ok
  /\ \E r \in DroppedRows, o \in table : o.namespace_id = r.namespace_id

(***************************************************************************)
(* C36: commit_table_transaction asserts the requirements of every change  *)
(* before it applies an update of any change.  When the changes load and   *)
(* some requirement fails, the call fails with the error of the first      *)
(* failing requirement, also when an earlier change holds an AssignUuid or *)
(* SetLocation update that the update guard rejects, and changes no table. *)
(***************************************************************************)
FailingRequirements ==
  {e \in UNION {{<<i, j>> : j \in DOMAIN last.request.table_changes[i].requirements} :
                  i \in DOMAIN last.request.table_changes} :
     ~RequirementHolds(last.request.table_changes[e[1]].requirements[e[2]],
                       CommitTarget(e[1]).metadata,
                       ~IsStaged(CommitTarget(e[1])))}

FirstFailing ==
  CHOOSE e \in FailingRequirements :
    \A o \in FailingRequirements :
      e[1] < o[1] \/ (e[1] = o[1] /\ e[2] <= o[2])

GuardRejects(i) ==
  \E k \in DOMAIN last.request.table_changes[i].updates :
    LET u == last.request.table_changes[i].updates[k]
    IN \/ u.kind = "AssignUuid" /\ u.uuid # CommitTarget(i).metadata.uuid
       \/ u.kind = "SetLocation" /\ u.location # CommitTarget(i).metadata.location

C36_RequirementsBeforeUpdates ==
  (/\ CommitCalled
   /\ \A i \in DOMAIN last.request.table_changes :
        Denotes(last.request.table_changes[i])
   /\ FailingRequirements # {}) =>
    /\ last.result =
         RequirementError(
           last.request.table_changes[FirstFailing[1]].requirements[FirstFailing[2]])
    /\ table = last.before

\* A requirement of the second change failed while the first change held a
\* rejected update.
C36_Witness ==
  /\ CommitCalled
  /\ \A i \in DOMAIN last.request.table_changes :
       Denotes(last.request.table_changes[i])
  /\ \E e \in FailingRequirements : e[1] = 2
  /\ GuardRejects(1)
  /\ last.result.code = 409

(***************************************************************************)
(* C37: rename_table(warehouse_id, ...) changes a row only if the table    *)
(* belongs to a namespace of warehouse_id when it is called, and every     *)
(* table is in the same warehouse after the call as before it: no rename   *)
(* moves a table into another warehouse or renames a table of another      *)
(* warehouse than the one passed.                                          *)
(***************************************************************************)
C37_RenameStaysInWarehouse ==
  RenameDone =>
    /\ \A r \in last.before :
         r \notin table => WarehouseOf(r) = last.request.warehouse_id
    /\ \A r \in last.before, n \in table :
         n.table_id = r.table_id => WarehouseOf(n) = WarehouseOf(r)

(***************************************************************************)
(* C38: batch and single resolution agree.  On the same catalog state, for *)
(* every warehouse, every set of identifiers within the size limit, every  *)
(* identifier i of the set and both values of include_staged,              *)
(* table_idents_to_ids maps i to what table_ident_to_id returns for i.     *)
(***************************************************************************)
IdentToIdDone == last.op = "table_ident_to_id"

C38_BatchAgreesWithSingle ==
  /\ IdentsToIdsDone =>
       /\ last.result.ok
       /\ \A i \in last.request.tables :
            Unwrap(last.value)[i] =
              table_ident_to_id(last.before, warehouse_status,
                                last.request.warehouse_id, i,
                                last.request.include_staged)
  /\ IdentToIdDone =>
       \A tables \in SUBSET TableIdents :
         last.request.ident \in tables =>
           last.value =
             table_idents_to_ids(last.before, warehouse_status,
                                 last.request.warehouse_id, tables,
                                 last.request.include_staged).value[last.request.ident]

\* A batch without include_staged over a committed table, a staged table and
\* an identifier of no table: one maps to the table_id, two to absent.
C38_Witness ==
  /\ IdentsToIdsDone
  /\ ~last.request.include_staged
  /\ \E i, j, k \in last.request.tables :
       /\ Unwrap(last.value)[i] # None
       /\ Unwrap(last.value)[j] = None
       /\ table_ident_to_id(last.before, warehouse_status,
                            last.request.warehouse_id, j, TRUE) # None
       /\ Unwrap(last.value)[k] = None
       /\ table_ident_to_id(last.before, warehouse_status,
                            last.request.warehouse_id, k, TRUE) = None

(***************************************************************************)
(* C39: the frame of rename_table.  A successful rename changes one row,   *)
(* the one of the table_id passed, and of that row only table_name, and    *)
(* namespace_id when the destination is in another namespace: table_id,    *)
(* metadata, metadata_location and table_location are as before, so a      *)
(* staged table stays staged and a committed one committed; every other    *)
(* row is as before.  A failed rename changes no row.                      *)
(***************************************************************************)
C39_RenameFrame ==
  RenameDone =>
    IF last.result.ok
    THEN \E old \in last.before, new \in table :
           /\ old.table_id = last.request.source_id
           /\ new.table_id = old.table_id
           /\ new.metadata = old.metadata
           /\ new.metadata_location = old.metadata_location
           /\ new.table_location = old.table_location
           /\ IsStaged(new) <=> IsStaged(old)
           /\ new.table_name = last.request.destination.name
           /\ last.request.source.namespace = last.request.destination.namespace
                => new.namespace_id = old.namespace_id
           /\ table \ {new} = last.before \ {old}
    ELSE table = last.before

\* A staged table was renamed within its namespace, next to a second table.
C39_Witness ==
  /\ RenameDone
  /\ last.result.ok
  /\ last.request.source.namespace = last.request.destination.namespace
  /\ Cardinality(table) = 2
  /\ table # last.before
  /\ \E r \in table : r.table_id = last.request.source_id /\ IsStaged(r)

(***************************************************************************)
(* C40: a NextPageToken round-trips through its wire form.  Deserializing  *)
(* the serialization of a token that new_next_token, new_finished or       *)
(* new_not_supported produced gives the token back, and a NextToken(s)     *)
(* that deserialization produces has s different from "" and from "null".  *)
(***************************************************************************)
C40_NextPageTokenRoundTrip ==
  /\ NextPageTokenMade =>
       NextPageToken_deserialize(last.value[2]) = last.value[1]
  /\ last.op = "NextPageToken::deserialize" =>
       (last.value[1][1] = "NextToken" => last.value[1][2] \notin {<<>>, Null})


====
